---- MODULE Spec2Model ----
(***************************************************************************)
(* Model of the issues_planner backend: the retry wrapper around the LLM   *)
(* client (RetryableLLMClient), the in-memory event store                  *)
(* (InMemoryEventStore), the in-memory issue repository and the issue      *)
(* service that drives them (IssueService).                                *)
(*                                                                         *)
(* Three specifications share the variables:                               *)
(*   SpecRetry  one call of RetryableLLMClient.retryOperation              *)
(*   SpecStore  the event store's own interface, fed arbitrary events      *)
(*   Spec       the live command pipeline and recovery by replay           *)
(***************************************************************************)
EXTENDS Integers, Sequences, FiniteSets, TLC

\* ------------------------------------------------------------------------
\* Bounds of the model
\* ------------------------------------------------------------------------

\* maxRetries supplied to the constructor ranges over -1..MaxRetriesBound
MaxRetriesBound == 2
\* initialDelayMs supplied to the constructor ranges over 1..MaxInitialDelay
MaxInitialDelay == 2
\* backoffFactor supplied to the constructor ranges over 0..MaxFactor
MaxFactor == 2
\* maxDelayMs supplied to the constructor ranges over 1..MaxDelayCap
MaxDelayCap == 3
\* the clock (milliseconds) ranges over 0..MaxClock
MaxClock == 1
\* the live pipeline stops accepting commands at MaxEvents stored events
MaxEvents == 5
\* the bare event store accepts MaxSaved saveEvent calls
MaxSaved == 2
\* longest log replayed into a fresh repository
MaxLog == 3
\* events recorded by the service when its commands change what they carry
MaxLive == 4
\* the repository driven directly: events recorded, comments stored and
\* uuids drawn before the calls stop
MaxRepoLog == 1
MaxRepoComments == 2
MaxRepoUuids == 2
\* commands suspended at the LLM client at one time, and the events recorded
\* before the interleaved commands stop
MaxPending == 2
MaxAsyncLog == 5

\* the events in the log before a caller stops querying and iterating
MaxQueryLog == 3

\* the events in the log before commands with a failing LLM client stop
MaxFailLog == 4

\* calls in flight at one time on the event loop, and the events in the log
\* when all of them have returned: for all commands, for commands that
\* await the LLM client, and for replays among commands that do not
MaxTasks == 2
MaxTaskLog == 3
MaxAnswerLog == 5
MaxLoopLog == 3

\* ------------------------------------------------------------------------
\* Program constants
\* ------------------------------------------------------------------------

DefaultMaxRetries == 3
DefaultInitialDelayMs == 500
DefaultBackoffFactor == 2
DefaultMaxDelayMs == 10000
\* backgroundTasks: issues older than this many days are archived
ARCHIVE_THRESHOLD_DAYS == 30

VARIABLES
    \* --- RetryableLLMClient ---
    config,      \* this.config after the constructor's merge
    rpc,         \* position of the retryOperation call
    opName,      \* operationName argument
    opIssueId,   \* issueId argument
    attempt,     \* loop variable
    delayMs,     \* local delayMs
    lastError,   \* local lastError
    outcome,     \* what the caller of retryOperation has received so far
    opCalls,     \* history: the outcome of every invocation of operation()
    waits,       \* history: the delay of every setTimeout scheduled
    rlog,        \* history: logger.warn / logger.error entries
    \* --- IssueService calls suspended at the LLM client ---
    pending,     \* the calls awaiting this.llmClient's answer, oldest first
    tasks,       \* the microtask queue: continuations of suspended calls
    \* --- a caller of the event store's queries ---
    held,        \* the array a query returned and the caller's iteration of it
    \* --- InMemoryIssueRepository ---
    issues,      \* Map<string, Issue>: a function on the ids present
    comments,    \* Map<string, IssueComment>, in insertion order
    \* --- InMemoryEventStore ---
    events,      \* this.events
    \* --- IssueService ---
    attached,    \* whether this.eventStore is set
    \* --- environment ---
    uuidCount,   \* number of uuidv4() calls so far
    now,         \* the clock read by new Date()
    \* --- observation ---
    saved,       \* history: the argument of every saveEvent call
    pushed,      \* history: the record every saveEvent call stored
    ret,         \* what the last call returned to its caller
    recovered    \* the system rebuilt by replaying the log into a fresh store

retryVars == <<config, rpc, opName, opIssueId, attempt, delayMs, lastError,
               outcome, opCalls, waits, rlog, pending, tasks, held>>

storeVars == <<issues, comments, events, attached, uuidCount, now, saved,
               pushed, ret, recovered>>

vars == <<config, rpc, opName, opIssueId, attempt, delayMs, lastError,
          outcome, opCalls, waits, rlog, pending, tasks, held, issues, comments, events, attached,
          uuidCount, now, saved, pushed, ret, recovered>>

\* ========================================================================
\* Values
\* ========================================================================

IssueIds == {"i1", "i2"}
Titles == {"t1"}
Descriptions == {"d1"}
Authors == {"alice"}
Contents == {"c1"}
Plans == {"p1", "p2"}

\* the error of a failing LLM call where only its occurrence matters
LLMError == "E1"

\* a falsy id or timestamp ('' / undefined)
Missing == << >>

\* an ISO-8601 string is modelled by the instant it denotes, boxed
ToISOString(t) == <<t>>

\* new Date(s).getTime()
GetTime(s) == s[1]

\* the n-th value returned by uuidv4()
Uuid(n) == <<"uuid", n>>

EventTypes == {"ISSUE_CREATED", "ISSUE_UPDATED", "ISSUE_ANALYZED",
               "ISSUE_PLANNED", "COMMENT_ADDED"}

\* IssueEvent, as the controller admits it (all fields non-empty)
IssueEvents ==
    { [id |-> i, title |-> t, description |-> d, author |-> a,
       createdAt |-> ToISOString(0)] :
        i \in IssueIds, t \in Titles, d \in Descriptions, a \in Authors }

\* LLMAnalysisResponse; confidence in percent; priority is optional
Analyses ==
    { [labels |-> <<"bug">>, assignedTo |-> "dev1", confidence |-> 90,
       priority |-> "high"],
      [labels |-> <<"api", "docs">>, assignedTo |-> "dev2", confidence |-> 50,
       priority |-> "undefined"] }

\* { ...a, ...b }
Merge(a, b) ==
    [f \in DOMAIN a \cup DOMAIN b |-> IF f \in DOMAIN b THEN b[f] ELSE a[f]]

\* Map.set(k, v) on a map held as a function
Put(m, k, v) == [x \in DOMAIN m \cup {k} |-> IF x = k THEN v ELSE m[x]]

EmptyMap == [x \in {} |-> x]

\* mutant: a new issue is stamped as never updated
issueEventToIssue_NoUpdatedAt(event) ==
    [id |-> event.id,
     title |-> event.title,
     description |-> event.description,
     author |-> event.author,
     createdAt |-> event.createdAt,
     comments |-> << >>,
     status |-> "open",
     updatedAt |-> Missing]

\* issueEventToIssue
issueEventToIssue(event) ==
    [id |-> event.id,
     title |-> event.title,
     description |-> event.description,
     author |-> event.author,
     createdAt |-> event.createdAt,
     comments |-> << >>,
     status |-> "open",
     updatedAt |-> event.createdAt]

\* ========================================================================
\* A system: repository, event store, service and their environment.
\* Every operation maps a system to the system it leaves behind.
\* ========================================================================

World ==
    [issues |-> issues, comments |-> comments, events |-> events,
     attached |-> attached, uuidCount |-> uuidCount, now |-> now,
     saved |-> saved, pushed |-> pushed, llmCalls |-> << >>,
     trace |-> << >>]

FreshWorld(n, t) ==
    [issues |-> EmptyMap, comments |-> << >>, events |-> << >>,
     attached |-> FALSE, uuidCount |-> n, now |-> t, saved |-> << >>,
     pushed |-> << >>, llmCalls |-> << >>, trace |-> << >>]

\* uuidv4(): the system after the call; the value is Uuid(w.uuidCount) there
TakeUuid(w) == [w EXCEPT !.uuidCount = @ + 1]

\* ------------------------------------------------------------------------
\* InMemoryIssueRepository
\* ------------------------------------------------------------------------

Has(w, id) == id \in DOMAIN w.issues

\* findCommentsByIssueId
RECURSIVE FilterComments(_, _)
FilterComments(cs, id) ==
    IF cs = << >> THEN << >>
    ELSE IF Head(cs).issueId = id
         THEN <<Head(cs)>> \o FilterComments(Tail(cs), id)
         ELSE FilterComments(Tail(cs), id)

findCommentsByIssueId(w, id) == FilterComments(w.comments, id)

\* findById, for an id that is present
findById(w, id) ==
    Merge(w.issues[id], [comments |-> findCommentsByIssueId(w, id)])

\* save (issue ids are never empty here)
RepoSave(w, issue) ==
    LET withStatus == IF "status" \in DOMAIN issue THEN issue
                      ELSE Merge(issue, [status |-> "open"])
        withComments == IF "comments" \in DOMAIN withStatus THEN withStatus
                        ELSE Merge(withStatus, [comments |-> << >>])
    IN  [w EXCEPT !.issues = Put(@, issue.id, withComments)]

\* mutant: the stored issue is replaced by the changed fields
RepoUpdate_Replaces(w, id, issueData) ==
    IF ~Has(w, id) THEN w
    ELSE [w EXCEPT !.issues =
            Put(@, id, Merge(issueData, [updatedAt |-> ToISOString(w.now)]))]

\* mutant: update of an unknown id stores the change as a new issue
RepoUpdate_Upserts(w, id, issueData) ==
    LET old == IF Has(w, id) THEN w.issues[id] ELSE [id |-> id]
    IN  [w EXCEPT !.issues =
            Put(@, id, Merge(Merge(old, issueData),
                             [updatedAt |-> ToISOString(w.now)]))]

\* mutant: the change is merged into every stored issue
RepoUpdate_All(w, id, issueData) ==
    IF ~Has(w, id) THEN w
    ELSE [w EXCEPT !.issues =
            [x \in DOMAIN @ |->
                Merge(Merge(@[x], issueData),
                      [updatedAt |-> ToISOString(w.now)])]]

\* update: null (no change) for an unknown id
RepoUpdate(w, id, issueData) ==
    IF ~Has(w, id) THEN w
    ELSE [w EXCEPT !.issues =
            Put(@, id, Merge(Merge(w.issues[id], issueData),
                             [updatedAt |-> ToISOString(w.now)]))]

\* mutant: delete removes the issue and leaves its comments
RepoDelete_KeepsComments(w, id) ==
    [w EXCEPT !.issues = [x \in DOMAIN @ \ {id} |-> @[x]]]

\* delete: the issue and every comment whose issueId is id are removed
RepoDelete(w, id) ==
    LET Kept(c) == c.issueId # id
    IN  [w EXCEPT !.issues = [x \in DOMAIN @ \ {id} |-> @[x]],
                  !.comments = SelectSeq(@, Kept)]

\* deleteComment: this.comments.delete(id)
RepoDeleteComment(w, commentId) ==
    LET Kept(c) == c.id # commentId
    IN  [w EXCEPT !.comments = SelectSeq(@, Kept)]

\* new Error(`Issue with ID ${id} not found`)
NotFound(id) == <<"Issue with ID", id, "not found">>

\* mutant: a new comment is put in front of the older ones
SetComment_Front(cs, c) ==
    IF \E i \in 1..Len(cs) : cs[i].id = c.id
    THEN [i \in 1..Len(cs) |-> IF cs[i].id = c.id THEN c ELSE cs[i]]
    ELSE <<c>> \o cs

\* mutant: the map is cleared before the comment is set
SetComment_Clears(cs, c) == <<c>>

\* this.comments.set(comment.id, { ...comment })
SetComment(cs, c) ==
    IF \E i \in 1..Len(cs) : cs[i].id = c.id
    THEN [i \in 1..Len(cs) |-> IF cs[i].id = c.id THEN c ELSE cs[i]]
    ELSE Append(cs, c)

\* addComment: [w, ok, comment]; comment is the argument object afterwards
RepoAddComment(w, comment) ==
    LET w1 == IF comment.id = Missing THEN TakeUuid(w) ELSE w
        c1 == IF comment.id = Missing
              THEN [comment EXCEPT !.id = Uuid(w1.uuidCount)]
              ELSE comment
    IN  IF ~Has(w1, c1.issueId)
        THEN [w |-> w1, ok |-> FALSE, comment |-> c1,
              error |-> NotFound(c1.issueId)]
        ELSE [w |-> [w1 EXCEPT !.comments = SetComment(@, c1)],
              ok |-> TRUE, comment |-> c1]

\* ------------------------------------------------------------------------
\* InMemoryEventStore: saveEvent, getEvents, getEventsByIssueId
\* ------------------------------------------------------------------------

\* the record pushed by saveEvent, given the system before the call
StoredEvent(w, event) ==
    LET withId == IF event.id = Missing
                  THEN [event EXCEPT !.id = Uuid(w.uuidCount + 1)]
                  ELSE event
    IN  IF withId.timestamp = Missing
        THEN [withId EXCEPT !.timestamp = ToISOString(w.now)]
        ELSE withId

\* mutant: the event is put at the front of the array
Push_Front(evs, e) == <<e>> \o evs

\* this.events.push({ ...event })
Push(evs, e) == Append(evs, e)

saveEvent(w, event) ==
    LET w1 == IF event.id = Missing THEN TakeUuid(w) ELSE w
    IN  [w1 EXCEPT !.events = Push(@, StoredEvent(w, event)),
                   !.saved = Append(@, event),
                   !.pushed = Append(@, StoredEvent(w, event))]

\* [...this.events]
getEvents(w) == [i \in 1..Len(w.events) |-> w.events[i]]

\* this.events.filter(event => event.issueId === issueId)
IssueIdMatches(e, issueId) == e.issueId = issueId

RECURSIVE FilterEvents(_, _)
FilterEvents(evs, issueId) ==
    IF evs = << >> THEN << >>
    ELSE IF IssueIdMatches(Head(evs), issueId)
         THEN <<Head(evs)>> \o FilterEvents(Tail(evs), issueId)
         ELSE FilterEvents(Tail(evs), issueId)

getEventsByIssueId(w, issueId) == FilterEvents(w.events, issueId)

\* ------------------------------------------------------------------------
\* IssueService
\* ------------------------------------------------------------------------

\* this.eventStore.saveEvent({ id: uuidv4(), type, data, timestamp, issueId })
RecordEvent(w, type, data, issueId) ==
    IF ~w.attached THEN w
    ELSE LET w1 == TakeUuid(w)
         IN  saveEvent(w1, [id |-> Uuid(w1.uuidCount), type |-> type,
                            data |-> data,
                            timestamp |-> ToISOString(w1.now),
                            issueId |-> issueId])

\* mutant: an event for an existing issue saves the issue anew
processIssueEvent_Resaves(w, event) ==
    RecordEvent(RepoSave(w, issueEventToIssue(event)),
                "ISSUE_CREATED", event, event.id)

processIssueEvent(w, event) ==
    IF Has(w, event.id)
    THEN LET change == [title |-> event.title,
                        description |-> event.description,
                        updatedAt |-> ToISOString(w.now)]
         IN  RecordEvent(RepoUpdate(w, event.id, change),
                         "ISSUE_UPDATED", change, event.id)
    ELSE RecordEvent(RepoSave(w, issueEventToIssue(event)),
                     "ISSUE_CREATED", event, event.id)

\* addComment for an issue that exists
addComment(w, issueId, content, author) ==
    LET w1 == TakeUuid(w)
        comment == [id |-> Uuid(w1.uuidCount), issueId |-> issueId,
                    content |-> content, author |-> author,
                    createdAt |-> ToISOString(w1.now)]
        added == RepoAddComment(w1, comment)
    IN  RecordEvent(added.w, "COMMENT_ADDED", added.comment, issueId)

\* mutant: the service does not look the issue up first
addCommentCall_Unchecked(w, issueId, content, author) ==
    [w |-> addComment(w, issueId, content, author), kind |-> "value"]

\* addComment as called: [w, kind, error]
addCommentCall(w, issueId, content, author) ==
    IF ~Has(w, issueId)
    THEN [w |-> w, kind |-> "throw", error |-> NotFound(issueId)]
    ELSE [w |-> addComment(w, issueId, content, author), kind |-> "value"]

\* the text of the system comment written after an analysis
AnalysisComment(r) ==
    [text |-> "Issue analyzed", assignedTo |-> r.assignedTo,
     labels |-> r.labels, priority |-> r.priority,
     confidence |-> r.confidence]

PlanComment == [text |-> "Issue plan generated"]

UserComment(c) == [text |-> c]

\* this.llmClient.analyzeIssue(issue) / this.llmClient.planIssue(issue)
LLMCalled(w, method) == [w EXCEPT !.llmCalls = Append(@, method)]

\* analyzeIssue for an issue that exists, the LLM having answered r
analyzeIssue(w, id, r) ==
    LET change == [labels |-> r.labels, assignedTo |-> r.assignedTo,
                   confidence |-> r.confidence, priority |-> r.priority,
                   updatedAt |-> ToISOString(w.now)]
        w0 == LLMCalled(w, "analyzeIssue")
        w1 == RepoUpdate(w0, id, change)
        w2 == RecordEvent(w1, "ISSUE_ANALYZED", change, id)
    IN  addComment(w2, id, AnalysisComment(r), "system")

\* mutant: the event records another plan than the one written to the issue
planIssue_RecordsDraft(w, id, p) ==
    LET w0 == LLMCalled(w, "planIssue")
        w1 == RepoUpdate(w0, id, [plan |-> p,
                                  updatedAt |-> ToISOString(w0.now)])
        w2 == RecordEvent(w1, "ISSUE_PLANNED", [plan |-> "draft"], id)
    IN  addComment(w2, id, PlanComment, "system")

\* planIssue for an issue that exists, the LLM having answered [plan: p]
planIssue(w, id, p) ==
    LET w0 == LLMCalled(w, "planIssue")
        w1 == RepoUpdate(w0, id, [plan |-> p,
                                  updatedAt |-> ToISOString(w0.now)])
        w2 == RecordEvent(w1, "ISSUE_PLANNED", [plan |-> p], id)
    IN  addComment(w2, id, PlanComment, "system")

\* mutant: the LLM client is asked before the issue is looked up
analyzeIssueCall_AsksFirst(w, id, r) ==
    IF ~Has(w, id) THEN [w |-> LLMCalled(w, "analyzeIssue"), kind |-> "null"]
    ELSE [w |-> analyzeIssue(w, id, r), kind |-> "value"]

\* analyzeIssue as called: [w, kind]; null when findById finds no issue
analyzeIssueCall(w, id, r) ==
    IF ~Has(w, id) THEN [w |-> w, kind |-> "null"]
    ELSE [w |-> analyzeIssue(w, id, r), kind |-> "value"]

\* planIssue as called: [w, kind]; null when findById finds no issue
planIssueCall(w, id, p) ==
    IF ~Has(w, id) THEN [w |-> w, kind |-> "null"]
    ELSE [w |-> planIssue(w, id, p), kind |-> "value"]

\* mutant: the issue is marked in progress before the client is asked
llmClientRejects_AfterWrite(w, id, error) ==
    [w |-> RepoUpdate(w, id, [status |-> "in_progress"]),
     kind |-> "throw", error |-> error]

\* analyzeIssue / planIssue when this.llmClient rejects with `error`:
\* findById, the rejected await, then catch (error) { logger.error; throw error }
llmClientRejects(w, id, error) ==
    [w |-> w, kind |-> "throw", error |-> error]

\* ------------------------------------------------------------------------
\* InMemoryEventStore: replayEvents, applyEvent
\* ------------------------------------------------------------------------

\* mutant: the comparator sorts newest first
CompareByTimestamp_Reversed(a, b) ==
    GetTime(b.timestamp) - GetTime(a.timestamp)

\* the comparator handed to sort
CompareByTimestamp(a, b) == GetTime(a.timestamp) - GetTime(b.timestamp)

\* Array.prototype.sort is stable: an element is placed before the first
\* one that compares greater.  Events are sorted as references, held here as
\* their positions in this.events.
\* mutant: elements that compare equal change places
ComesAfter_Ties(c) == c >= 0

\* sort moves an element behind another only when the comparator is positive
ComesAfter(c) == c > 0

RECURSIVE InsertSorted(_, _, _)
InsertSorted(evs, order, idx) ==
    IF order = << >> THEN <<idx>>
    ELSE IF ComesAfter(CompareByTimestamp(evs[Head(order)], evs[idx]))
         THEN <<idx>> \o order
         ELSE <<Head(order)>> \o InsertSorted(evs, Tail(order), idx)

RECURSIVE SortFrom(_, _, _)
SortFrom(evs, order, idx) ==
    IF idx > Len(evs) THEN order
    ELSE SortFrom(evs, InsertSorted(evs, order, idx), idx + 1)

\* [...this.events].sort(...)
SortedEvents(evs) == SortFrom(evs, << >>, 1)

\* applyEvent on the event object at position idx of this.events
ApplyCreated(w, e) == processIssueEvent(w, e.data)

ApplyComment(w, idx) ==
    LET r == RepoAddComment(w, w.events[idx].data)
    IN  [r.w EXCEPT !.events[idx].data = r.comment]

\* mutant: replay of an analysis asks the LLM client again
ApplyAnalyzed_CallsClient(w, idx) ==
    analyzeIssue(w, w.events[idx].issueId,
                 CHOOSE r \in Analyses : r.labels # w.events[idx].data.labels)

\* mutant: replay of an analysis also moves the issue to in_progress
ApplyAnalyzed_SetsStatus(w, idx) ==
    RepoUpdate(w, w.events[idx].issueId,
               Merge(w.events[idx].data, [status |-> "in_progress"]))

\* case 'ISSUE_ANALYZED': issueRepository.update(event.issueId, event.data)
ApplyAnalyzed(w, idx) ==
    RepoUpdate(w, w.events[idx].issueId, w.events[idx].data)

\* mutant: an event of unknown type is applied as an update
ApplyUnknown_Updates(w, idx) ==
    RepoUpdate(w, w.events[idx].issueId, w.events[idx].data)

\* default: logger.warn, nothing else
ApplyUnknown(w, idx) == w

applyEvent(w, idx) ==
    LET e == w.events[idx]
    IN  CASE e.type = "ISSUE_CREATED" -> ApplyCreated(w, e)
          [] e.type = "ISSUE_UPDATED" -> RepoUpdate(w, e.issueId, e.data)
          [] e.type = "ISSUE_ANALYZED" -> ApplyAnalyzed(w, idx)
          [] e.type = "ISSUE_PLANNED" ->
                RepoUpdate(w, e.issueId, [plan |-> e.data.plan])
          [] e.type = "COMMENT_ADDED" -> ApplyComment(w, idx)
          [] OTHER -> ApplyUnknown(w, idx)

\* whether applyEvent throws: only issueRepository.addComment does, for a
\* comment on an issue the repository does not hold
Throws(w, idx) ==
    /\ w.events[idx].type = "COMMENT_ADDED"
    /\ ~RepoAddComment(w, w.events[idx].data).ok

\* the repository as a reader sees it
Repo(w) == [issues |-> w.issues, comments |-> w.comments]

\* try { await this.applyEvent(event) } catch (error) { logger.error(...) }:
\* the system after the event, with what the two log lines and the
\* repository show of the step
TryApply(w, idx) ==
    LET after == applyEvent(w, idx)
    IN  [after EXCEPT !.trace =
            Append(@, [idx |-> idx, threw |-> Throws(w, idx),
                       before |-> Repo(w), after |-> Repo(after),
                       appended |-> SubSeq(after.events, Len(w.events) + 1,
                                           Len(after.events))])]

\* mutant: the first failure ends the loop
NextIndex_Aborts(w, idx, k) ==
    IF Throws(w, idx) THEN Len(w.events) + 1 ELSE k + 1

\* the catch block neither rethrows nor breaks: the loop goes on
NextIndex(w, idx, k) == k + 1

RECURSIVE ReplayFrom(_, _, _)
ReplayFrom(w, order, k) ==
    IF k > Len(order) THEN w
    ELSE ReplayFrom(TryApply(w, order[k]), order, NextIndex(w, order[k], k))

replayEvents(w) == ReplayFrom(w, SortedEvents(w.events), 1)

\* ========================================================================
\* Actions
\* ========================================================================

NotRecovered == [done |-> FALSE]

SetWorld(w) ==
    /\ issues' = w.issues
    /\ comments' = w.comments
    /\ events' = w.events
    /\ attached' = w.attached
    /\ uuidCount' = w.uuidCount
    /\ now' = w.now
    /\ saved' = w.saved
    /\ pushed' = w.pushed

\* index.ts bootstrap: empty repository, empty store, store attached
StoreInit ==
    /\ issues = EmptyMap
    /\ comments = << >>
    /\ events = << >>
    /\ attached = TRUE
    /\ uuidCount = 0
    /\ now = 0
    /\ saved = << >>
    /\ pushed = << >>
    /\ ret = [op |-> "none", kind |-> "none"]
    /\ recovered = NotRecovered

Live == ~recovered.done

CreatedCount(evs) ==
    Cardinality({ i \in 1..Len(evs) : evs[i].type = "ISSUE_CREATED" })

\* time passes
Tick ==
    /\ Live
    /\ now < MaxClock
    /\ now' = now + 1
    /\ UNCHANGED <<issues, comments, events, attached, uuidCount, saved,
                   pushed, ret, recovered>>
    /\ UNCHANGED retryVars

\* POST /events
ProcessIssueEventCmd(event) ==
    /\ Live
    /\ Len(events) < MaxEvents
    /\ SetWorld(processIssueEvent(World, event))
    /\ ret' = [op |-> "processIssueEvent", kind |-> "value"]
    /\ UNCHANGED recovered
    /\ UNCHANGED retryVars

\* POST /analyze/:issueId, the LLM client answering r
AnalyzeIssueCmd(id, r) ==
    /\ Live
    /\ Len(events) + 2 <= MaxEvents
    /\ LET out == analyzeIssueCall(World, id, r)
       IN  /\ SetWorld(out.w)
           /\ ret' = [op |-> "analyzeIssue", kind |-> out.kind,
                      llmCalls |-> out.w.llmCalls]
    /\ UNCHANGED recovered
    /\ UNCHANGED retryVars

\* POST /analyze/:issueId, the LLM client failing
AnalyzeIssueFails(id, error) ==
    /\ Live
    /\ Has(World, id)
    /\ LET out == llmClientRejects(World, id, error)
       IN  /\ SetWorld(out.w)
           /\ ret' = [op |-> "analyzeIssue", kind |-> out.kind,
                      error |-> out.error]
    /\ UNCHANGED recovered
    /\ UNCHANGED retryVars

\* POST /plan/:issueId, the LLM client answering [plan: p]
PlanIssueCmd(id, p) ==
    /\ Live
    /\ Len(events) + 2 <= MaxEvents
    /\ LET out == planIssueCall(World, id, p)
       IN  /\ SetWorld(out.w)
           /\ ret' = [op |-> "planIssue", kind |-> out.kind,
                      llmCalls |-> out.w.llmCalls]
    /\ UNCHANGED recovered
    /\ UNCHANGED retryVars

\* POST /plan/:issueId, the LLM client failing
PlanIssueFails(id, error) ==
    /\ Live
    /\ Has(World, id)
    /\ LET out == llmClientRejects(World, id, error)
       IN  /\ SetWorld(out.w)
           /\ ret' = [op |-> "planIssue", kind |-> out.kind,
                      error |-> out.error]
    /\ UNCHANGED recovered
    /\ UNCHANGED retryVars

\* IssueService.addComment
AddCommentCmd(id, content, author) ==
    /\ Live
    /\ Len(events) < MaxEvents
    /\ LET out == addCommentCall(World, id, UserComment(content), author)
       IN  /\ SetWorld(out.w)
           /\ ret' = IF out.kind = "throw"
                     THEN [op |-> "addComment", kind |-> "throw",
                           error |-> out.error]
                     ELSE [op |-> "addComment", kind |-> "value"]
    /\ UNCHANGED recovered
    /\ UNCHANGED retryVars

\* POST /events/replay: IssueService.replayEvents on the running system
ReplayEventsCmd ==
    /\ Live
    /\ Len(events) + CreatedCount(events) <= MaxEvents
    /\ IF attached
       THEN SetWorld(replayEvents(World))
       ELSE SetWorld(World)
    /\ ret' = [op |-> "replayEvents", kind |-> "value", before |-> events]
    /\ UNCHANGED recovered
    /\ UNCHANGED retryVars

\* Recovery after loss of state: a new repository, service and event store,
\* the recorded events copied into the new store with saveEvent, the store
\* attached to the new service or not, then replayEvents on the new store.
\* A call that failed or found nothing leaves the system as the last
\* completed call left it, so recovery is taken from there.
RECURSIVE CopyEvents(_, _)
CopyEvents(w, evs) ==
    IF evs = << >> THEN w
    ELSE CopyEvents(saveEvent(w, Head(evs)), Tail(evs))

Restored(att) ==
    [CopyEvents(FreshWorld(uuidCount, now), getEvents(World))
        EXCEPT !.attached = att]

Recover(att) ==
    /\ Live
    /\ events # << >>
    /\ ret.kind = "value"
    /\ LET restored == Restored(att)
       IN  recovered' = [done |-> TRUE,
                         copied |-> restored.events,
                         world |-> replayEvents(restored)]
    /\ ret' = [op |-> "recover", kind |-> "value"]
    /\ UNCHANGED <<issues, comments, events, attached, uuidCount, now, saved,
                   pushed>>
    /\ UNCHANGED retryVars

\* ========================================================================
\* RetryableLLMClient
\* ========================================================================

Min(a, b) == IF a <= b THEN a ELSE b

RetryFields == {"maxRetries", "initialDelayMs", "backoffFactor", "maxDelayMs"}

defaultConfig ==
    [maxRetries |-> DefaultMaxRetries,
     initialDelayMs |-> DefaultInitialDelayMs,
     backoffFactor |-> DefaultBackoffFactor,
     maxDelayMs |-> DefaultMaxDelayMs]

\* Partial<RetryConfig>: the fields in `given` are supplied, the others absent
PartialConfigs ==
    { [given |-> D,
       vals |-> [maxRetries |-> mr, initialDelayMs |-> d0,
                 backoffFactor |-> bf, maxDelayMs |-> md]] :
        D \in SUBSET RetryFields,
        mr \in (-1)..MaxRetriesBound,
        d0 \in 1..MaxInitialDelay,
        bf \in 0..MaxFactor,
        md \in 1..MaxDelayCap }

\* { ...this.defaultConfig, ...config }
MergeConfig(partial) ==
    [f \in RetryFields |->
        IF f \in partial.given THEN partial.vals[f] ELSE defaultConfig[f]]

OperationNames == {"LLM Analysis", "LLM Planning"}
Errors == {LLMError, "E2"}
Values == {"V1", "V2"}
UnknownError == "Unknown error"

NoOutcome == [kind |-> "pending"]

\* for (...; attempt <= config.maxRetries + 1; ...)
LoopCondition(k, cfg) == k <= cfg.maxRetries + 1

\* mutant: gives up one attempt early
IsLastAttempt_Early(k, cfg) == k >= cfg.maxRetries

\* mutant: does not recognise the last attempt
IsLastAttempt_Late(k, cfg) == k > cfg.maxRetries + 1

\* if (attempt > config.maxRetries)
IsLastAttempt(k, cfg) == k > cfg.maxRetries

\* mutant: keeps the first error caught
CaughtError_First(prev, e) == IF prev = UnknownError THEN e ELSE prev

\* lastError = error
CaughtError(prev, e) == e

\* mutant: backoff without the cap
NextDelay_NoCap(d, cfg) == d * cfg.backoffFactor

\* delayMs = Math.min(delayMs * config.backoffFactor, config.maxDelayMs)
NextDelay(d, cfg) == Min(d * cfg.backoffFactor, cfg.maxDelayMs)

\* no query has been made
NothingHeld ==
    [array |-> "none", items |-> << >>, issueId |-> "none", at |-> 0,
     seen |-> << >>, done |-> TRUE]

RetryIdle ==
    /\ rpc = "idle"
    /\ opName = "none"
    /\ opIssueId = "none"
    /\ attempt = 0
    /\ delayMs = 0
    /\ lastError = UnknownError
    /\ outcome = NoOutcome
    /\ opCalls = << >>
    /\ waits = << >>
    /\ rlog = << >>
    /\ pending = << >>
    /\ tasks = << >>
    /\ held = NothingHeld

RetryInit ==
    /\ config \in { MergeConfig(p) : p \in PartialConfigs }
    /\ RetryIdle
    /\ StoreInit

\* analyzeIssue / planIssue enter retryOperation for the issue input.id
RetryOperation(name, id) ==
    /\ rpc = "idle"
    /\ rpc' = "loop"
    /\ opName' = name
    /\ opIssueId' = id
    /\ attempt' = 1
    /\ delayMs' = config.initialDelayMs
    /\ lastError' = UnknownError
    /\ UNCHANGED <<tasks, held, pending, config, outcome, opCalls, waits, rlog>>
    /\ UNCHANGED storeVars

\* mutant: a successful attempt is followed by a wait and another attempt
OperationReturns_Continues(v) ==
    /\ rpc = "loop"
    /\ LoopCondition(attempt, config)
    /\ opCalls' = Append(opCalls, [kind |-> "ok", value |-> v])
    /\ waits' = Append(waits, delayMs)
    /\ rpc' = "waiting"
    /\ UNCHANGED <<tasks, held, pending, config, opName, opIssueId, attempt, delayMs, lastError, outcome, rlog>>
    /\ UNCHANGED storeVars

\* return await operation()  -- the operation resolves with v
OperationReturns(v) ==
    /\ rpc = "loop"
    /\ LoopCondition(attempt, config)
    /\ opCalls' = Append(opCalls, [kind |-> "ok", value |-> v])
    /\ outcome' = [kind |-> "returned", value |-> v]
    /\ rpc' = "done"
    /\ UNCHANGED <<tasks, held, pending, config, opName, opIssueId, attempt, delayMs, lastError, waits, rlog>>
    /\ UNCHANGED storeVars

\* mutant: the last failure is rethrown without a log entry
OperationThrows_SilentLast(e) ==
    /\ rpc = "loop"
    /\ LoopCondition(attempt, config)
    /\ opCalls' = Append(opCalls, [kind |-> "err", error |-> e])
    /\ lastError' = CaughtError(lastError, e)
    /\ IF IsLastAttempt(attempt, config)
       THEN /\ rlog' = rlog
            /\ outcome' = [kind |-> "thrown", error |-> lastError']
            /\ rpc' = "done"
            /\ waits' = waits
       ELSE /\ rlog' = Append(rlog, [level |-> "warn", op |-> opName,
                                      issueId |-> opIssueId,
                                      attempt |-> attempt,
                                      ceiling |-> config.maxRetries + 1,
                                      delay |-> delayMs,
                                      error |-> e])
            /\ waits' = Append(waits, delayMs)
            /\ outcome' = outcome
            /\ rpc' = "waiting"
    /\ UNCHANGED <<tasks, held, pending, config, opName, opIssueId, attempt, delayMs>>
    /\ UNCHANGED storeVars

\* catch (error) { ... }  -- the operation rejects with e
OperationThrows(e) ==
    /\ rpc = "loop"
    /\ LoopCondition(attempt, config)
    /\ opCalls' = Append(opCalls, [kind |-> "err", error |-> e])
    /\ lastError' = CaughtError(lastError, e)
    /\ IF IsLastAttempt(attempt, config)
       THEN /\ rlog' = Append(rlog, [level |-> "error", op |-> opName,
                                      issueId |-> opIssueId,
                                      ceiling |-> config.maxRetries + 1,
                                      error |-> lastError'])
            /\ outcome' = [kind |-> "thrown", error |-> lastError']
            /\ rpc' = "done"
            /\ waits' = waits
       ELSE /\ rlog' = Append(rlog, [level |-> "warn", op |-> opName,
                                      issueId |-> opIssueId,
                                      attempt |-> attempt,
                                      ceiling |-> config.maxRetries + 1,
                                      delay |-> delayMs,
                                      error |-> e])
            /\ waits' = Append(waits, delayMs)
            /\ outcome' = outcome
            /\ rpc' = "waiting"
    /\ UNCHANGED <<tasks, held, pending, config, opName, opIssueId, attempt, delayMs>>
    /\ UNCHANGED storeVars

\* the setTimeout fires: backoff for the next retry, then attempt++
TimerFires ==
    /\ rpc = "waiting"
    /\ delayMs' = NextDelay(delayMs, config)
    /\ attempt' = attempt + 1
    /\ rpc' = "loop"
    /\ UNCHANGED <<tasks, held, pending, config, opName, opIssueId, lastError, outcome, opCalls, waits, rlog>>
    /\ UNCHANGED storeVars

\* the loop condition fails: throw lastError after the loop
LoopFallsThrough ==
    /\ rpc = "loop"
    /\ ~LoopCondition(attempt, config)
    /\ outcome' = [kind |-> "thrown", error |-> lastError]
    /\ rpc' = "done"
    /\ UNCHANGED <<tasks, held, pending, config, opName, opIssueId, attempt, delayMs, lastError, opCalls,
                   waits, rlog>>
    /\ UNCHANGED storeVars

RetryNext ==
    \/ \E name \in OperationNames, id \in IssueIds : RetryOperation(name, id)
    \/ \E v \in Values : OperationReturns(v)
    \/ \E e \in Errors : OperationThrows(e)
    \/ TimerFires
    \/ LoopFallsThrough

SpecRetry == RetryInit /\ [][RetryNext]_vars

\* ------------------------------------------------------------------------
\* Properties of the retry wrapper (checked under SpecRetry)
\* ------------------------------------------------------------------------

Failed(i) == opCalls[i].kind = "err"
AllFailed == \A i \in 1..Len(opCalls) : Failed(i)
RetryDone == rpc = "done"

\* C3: with maxRetries >= 0, one retry call invokes the wrapped operation at
\* most maxRetries + 1 times, and exactly maxRetries + 1 times when the call
\* has ended and every attempt failed.
RetryAttemptBound ==
    config.maxRetries >= 0 =>
        /\ Len(opCalls) <= config.maxRetries + 1
        /\ (RetryDone /\ AllFailed) => Len(opCalls) = config.maxRetries + 1

RetryAttemptBoundWitness ==
    /\ RetryDone
    /\ AllFailed
    /\ config.maxRetries = 2
    /\ Len(opCalls) = 3

\* C4: a successful attempt k is the last invocation: the call has ended, it
\* returned the value of attempt k, k <= maxRetries + 1, and the only waits
\* performed are the k - 1 that followed the failed attempts before it.
RetryStopsOnSuccess ==
    \A k \in 1..Len(opCalls) :
        opCalls[k].kind = "ok" =>
            /\ k = Len(opCalls)
            /\ k <= config.maxRetries + 1
            /\ RetryDone
            /\ outcome = [kind |-> "returned", value |-> opCalls[k].value]
            /\ Len(waits) = k - 1

RetryStopsOnSuccessWitness ==
    /\ RetryDone
    /\ Len(opCalls) = 3
    /\ Failed(1) /\ Failed(2)
    /\ opCalls[3].kind = "ok"
    /\ outcome = [kind |-> "returned", value |-> opCalls[3].value]

\* C5: with maxRetries >= 0, a failure reaches the caller only when all
\* maxRetries + 1 attempts have failed, and it is the error of the last one.
RetryExhaustionError ==
    (config.maxRetries >= 0 /\ outcome.kind = "thrown") =>
        /\ RetryDone
        /\ Len(opCalls) = config.maxRetries + 1
        /\ AllFailed
        /\ outcome.error = opCalls[Len(opCalls)].error

RetryExhaustionErrorWitness ==
    /\ outcome.kind = "thrown"
    /\ Len(opCalls) = 3
    /\ opCalls[1].error # opCalls[3].error
    /\ outcome.error = opCalls[3].error

\* C6: the j-th wait of a call follows the j-th failed non-final attempt; the
\* first wait is initialDelayMs and each later one is
\* min(previous * backoffFactor, maxDelayMs); with backoffFactor >= 1 and
\* maxDelayMs >= initialDelayMs the waits are non-decreasing and none
\* exceeds maxDelayMs.
BackoffSchedule ==
    /\ Len(waits) = Cardinality({ i \in 1..Len(opCalls) :
                                    Failed(i) /\ i <= config.maxRetries })
    /\ Len(waits) >= 1 => waits[1] = config.initialDelayMs
    /\ \A j \in 1..(Len(waits) - 1) :
          LET grown == waits[j] * config.backoffFactor
          IN  waits[j + 1] =
                IF grown > config.maxDelayMs THEN config.maxDelayMs ELSE grown
    /\ (config.backoffFactor >= 1 /\ config.maxDelayMs >= config.initialDelayMs)
          => /\ \A j \in 1..Len(waits) : waits[j] <= config.maxDelayMs
             /\ \A j \in 1..(Len(waits) - 1) : waits[j] <= waits[j + 1]

BackoffScheduleWitness ==
    /\ config.backoffFactor >= 1
    /\ config.maxDelayMs >= config.initialDelayMs
    /\ Len(waits) = 3
    /\ waits[1] < waits[2]
    /\ waits[2] * config.backoffFactor > config.maxDelayMs
    /\ waits[3] = config.maxDelayMs

\* C7: with maxRetries = 0 a failing operation is invoked once, no wait is
\* performed, and that failure is what the caller receives.
ZeroRetryImmediacy ==
    (config.maxRetries = 0 /\ Len(opCalls) >= 1 /\ Failed(1)) =>
        /\ RetryDone
        /\ Len(opCalls) = 1
        /\ waits = << >>
        /\ outcome = [kind |-> "thrown", error |-> opCalls[1].error]

ZeroRetryImmediacyWitness ==
    /\ config.maxRetries = 0
    /\ Len(opCalls) = 1
    /\ Failed(1)
    /\ outcome.kind = "thrown"

\* ------------------------------------------------------------------------
\* The event store driven directly (GET /events, GET /events/:issueId, and
\* saveEvent called with events of every shape)
\* ------------------------------------------------------------------------

GivenIds == { <<"ev", 1>> }
GivenCommentIds == { <<"cm", 1>> }

RawData(type, issueId) ==
    CASE type = "ISSUE_CREATED" ->
            { [id |-> issueId, title |-> "t1", description |-> "d1",
               author |-> "alice", createdAt |-> ToISOString(0)] }
      [] type = "ISSUE_UPDATED" ->
            { [title |-> "t2", description |-> "d1",
               updatedAt |-> ToISOString(0)] }
      [] type = "ISSUE_ANALYZED" ->
            { [labels |-> <<"bug">>, assignedTo |-> "dev1",
               confidence |-> 90, priority |-> "high",
               updatedAt |-> ToISOString(0)] }
      [] type = "ISSUE_PLANNED" -> { [plan |-> "p1"] }
      [] type = "COMMENT_ADDED" ->
            { [id |-> c, issueId |-> issueId, content |-> UserComment("c1"),
               author |-> "alice", createdAt |-> ToISOString(0)] :
                c \in GivenCommentIds \cup {Missing} }
      [] OTHER -> { [note |-> "x"] }

\* a caller leaves id and timestamp to the store, or supplies both (as a
\* copy of a stored event does), stamped with the earliest or latest instant
Stamps ==
    { [id |-> Missing, timestamp |-> Missing] } \cup
    { [id |-> i, timestamp |-> ToISOString(k)] :
        i \in GivenIds, k \in {0, MaxClock} }

RawEvents ==
    UNION { { [id |-> s.id, type |-> t, data |-> d,
               timestamp |-> s.timestamp, issueId |-> x] :
                d \in RawData(t, x) } :
            s \in Stamps, t \in EventTypes \cup {"UNKNOWN"}, x \in IssueIds }

\* eventStore.saveEvent(event)
SaveEventCall(event) ==
    /\ Live
    /\ Len(saved) < MaxSaved
    /\ SetWorld(saveEvent(World, event))
    /\ ret' = [op |-> "saveEvent", kind |-> "value",
               result |-> StoredEvent(World, event)]
    /\ UNCHANGED recovered
    /\ UNCHANGED retryVars

\* eventStore.getEvents()
GetEventsCall ==
    /\ Live
    /\ ret' = [op |-> "getEvents", kind |-> "value",
               result |-> getEvents(World)]
    /\ UNCHANGED <<issues, comments, events, attached, uuidCount, now, saved,
                   pushed, recovered>>
    /\ UNCHANGED retryVars

\* eventStore.getEventsByIssueId(issueId)
GetEventsByIssueIdCall(issueId) ==
    /\ Live
    /\ ret' = [op |-> "getEventsByIssueId", kind |-> "value",
               issueId |-> issueId,
               result |-> getEventsByIssueId(World, issueId)]
    /\ UNCHANGED <<issues, comments, events, attached, uuidCount, now, saved,
                   pushed, recovered>>
    /\ UNCHANGED retryVars

\* A caller of getEvents holds the stored event objects themselves (the
\* array is copied, its elements are not) and assigns to one of them.
CallerSetsReturnedIssueId(i, x) ==
    /\ Live
    /\ ret.op = "getEvents"
    /\ i \in 1..Len(ret.result)
    /\ ret.result[i].issueId # x
    /\ events' = [events EXCEPT ![i].issueId = x]
    /\ ret' = [ret EXCEPT !.result[i].issueId = x]
    /\ UNCHANGED <<issues, comments, attached, uuidCount, now, saved, pushed,
                   recovered>>
    /\ UNCHANGED retryVars

\* A caller of saveEvent keeps the event it passed; the stored copy is
\* shallow and shares its data object, to which the caller adds a property.
CallerTouchesSavedData ==
    /\ Live
    /\ ret.op = "saveEvent"
    /\ "touched" \notin DOMAIN events[Len(events)].data
    /\ events' = [events EXCEPT ![Len(events)].data =
                                    Merge(@, [touched |-> TRUE])]
    /\ ret' = [ret EXCEPT !.result.data = Merge(@, [touched |-> TRUE])]
    /\ UNCHANGED <<issues, comments, attached, uuidCount, now, saved, pushed,
                   recovered>>
    /\ UNCHANGED retryVars

\* ========================================================================
\* Specifications
\* ========================================================================

Init == RetryIdle /\ config = defaultConfig /\ StoreInit

\* the live command pipeline, in-place replay and recovery
Next ==
    \/ Tick
    \/ \E event \in IssueEvents : ProcessIssueEventCmd(event)
    \/ \E id \in IssueIds, r \in Analyses : AnalyzeIssueCmd(id, r)
    \/ \E id \in IssueIds : AnalyzeIssueFails(id, LLMError)
    \/ \E id \in IssueIds, p \in Plans : PlanIssueCmd(id, p)
    \/ \E id \in IssueIds : PlanIssueFails(id, LLMError)
    \/ \E id \in IssueIds, c \in Contents, a \in Authors :
          AddCommentCmd(id, c, a)
    \/ ReplayEventsCmd
    \/ \E att \in BOOLEAN : Recover(att)

Spec == Init /\ [][Next]_vars

\* the event store driven directly
StoreNext ==
    \/ Tick
    \/ \E event \in RawEvents : SaveEventCall(event)
    \/ GetEventsCall
    \/ \E id \in IssueIds : GetEventsByIssueIdCall(id)

SpecStore == Init /\ [][StoreNext]_vars

\* the event store driven directly, with replay, by callers that keep the
\* objects they passed to it or received from it
OpenStoreNext ==
    \/ \E event \in RawEvents : SaveEventCall(event)
    \/ GetEventsCall
    \/ ReplayEventsCmd
    \/ \E i \in 1..MaxEvents, x \in IssueIds : CallerSetsReturnedIssueId(i, x)
    \/ CallerTouchesSavedData

SpecStoreOpen == Init /\ [][OpenStoreNext]_vars

\* ------------------------------------------------------------------------
\* Replay of an arbitrary log into fresh repositories, twice
\* ------------------------------------------------------------------------

\* what a recorded event of each type carries; the analysis differs per issue
ReplayData(type, issueId) ==
    CASE type = "ISSUE_CREATED" ->
            [id |-> issueId, title |-> "t1", description |-> "d1",
             author |-> "alice", createdAt |-> ToISOString(0)]
      [] type = "ISSUE_UPDATED" ->
            [title |-> "t2", description |-> "d1",
             updatedAt |-> ToISOString(0)]
      [] type = "ISSUE_ANALYZED" ->
            IF issueId = "i1"
            THEN [labels |-> <<"bug">>, assignedTo |-> "dev1",
                  confidence |-> 90, priority |-> "high",
                  updatedAt |-> ToISOString(0)]
            ELSE [labels |-> <<"api", "docs">>, assignedTo |-> "dev2",
                  confidence |-> 50, priority |-> "undefined",
                  updatedAt |-> ToISOString(0)]
      [] type = "ISSUE_PLANNED" -> [plan |-> "p1"]
      [] type = "COMMENT_ADDED" ->
            [id |-> <<"cm", 1>>, issueId |-> issueId,
             content |-> UserComment("c1"), author |-> "alice",
             createdAt |-> ToISOString(0)]
      [] OTHER -> [note |-> "x"]

\* every type of event for the first issue; the second issue is created,
\* analyzed and commented
ReplayKinds ==
    { [type |-> t, issueId |-> "i1"] : t \in EventTypes \cup {"UNKNOWN"} }
    \cup { [type |-> t, issueId |-> "i2"] :
             t \in {"ISSUE_CREATED", "ISSUE_ANALYZED", "COMMENT_ADDED"} }

\* recorded events, stamped by their producer with the earliest or the
\* latest instant, in whatever order they reach the store
ReplayableEvents ==
    { [id |-> Missing, type |-> k.type,
       data |-> ReplayData(k.type, k.issueId),
       timestamp |-> ToISOString(t), issueId |-> k.issueId] :
        k \in ReplayKinds, t \in {0, MaxClock} }

\* eventStore.saveEvent(event), while nothing has been replayed
LogEvent(event) ==
    /\ recovered = NotRecovered
    /\ Len(events) < MaxLog
    /\ SetWorld(saveEvent(World, event))
    /\ ret' = [op |-> "saveEvent", kind |-> "value"]
    /\ UNCHANGED recovered
    /\ UNCHANGED retryVars

\* a new repository, service and store holding the given events, the store
\* attached to the service
RestoredFrom(evs, n, t) ==
    [CopyEvents(FreshWorld(n, t), evs) EXCEPT !.attached = TRUE]

\* first recovery: the log is copied into a fresh system and replayed there
FirstRun ==
    /\ recovered = NotRecovered
    /\ events # << >>
    /\ recovered' = [done |-> FALSE,
                     copied |-> getEvents(World),
                     start |-> [uuidCount |-> uuidCount, now |-> now],
                     first |-> replayEvents(
                                 RestoredFrom(getEvents(World), uuidCount, now))]
    /\ ret' = [op |-> "replayEvents", kind |-> "value"]
    /\ UNCHANGED <<issues, comments, events, attached, uuidCount, now, saved,
                   pushed>>
    /\ UNCHANGED retryVars

\* second recovery, of the same log, at the time it is run; uuidv4 never
\* returns a value it returned before
SecondRun ==
    /\ "first" \in DOMAIN recovered
    /\ ~recovered.done
    /\ recovered' =
          [done |-> TRUE, copied |-> recovered.copied,
           start |-> recovered.start, first |-> recovered.first,
           second |-> replayEvents(
                        RestoredFrom(recovered.copied,
                                     recovered.first.uuidCount, now))]
    /\ ret' = [op |-> "replayEvents", kind |-> "value"]
    /\ UNCHANGED <<issues, comments, events, attached, uuidCount, now, saved,
                   pushed>>
    /\ UNCHANGED retryVars

\* time passes between the two recoveries
TickBetweenRuns ==
    /\ recovered # NotRecovered
    /\ Tick

ReplayNext ==
    \/ TickBetweenRuns
    \/ \E event \in ReplayableEvents : LogEvent(event)
    \/ FirstRun
    \/ SecondRun

SpecReplay == Init /\ [][ReplayNext]_vars

\* a store that is handed recorded events and replayed in place, again and
\* again, into the repository of the service it is attached to
RerunNext ==
    \/ \E event \in ReplayableEvents : LogEvent(event)
    \/ ReplayEventsCmd

SpecRerun == Init /\ [][RerunNext]_vars

\* ------------------------------------------------------------------------
\* The service receiving events that change an issue's title and description
\* ------------------------------------------------------------------------

\* IssueEvent as the controller admits it, in two wordings
LiveIssueEvents ==
    { [id |-> i, title |-> v.title, description |-> v.description,
       author |-> a, createdAt |-> ToISOString(0)] :
        i \in IssueIds, a \in Authors,
        v \in { [title |-> "t1", description |-> "d1"],
                [title |-> "t2", description |-> "d2"] } }

Room(n) == Len(events) + n <= MaxLive

LiveNext ==
    \/ Tick
    \/ \E event \in LiveIssueEvents : Room(1) /\ ProcessIssueEventCmd(event)
    \/ \E id \in IssueIds, r \in Analyses : Room(2) /\ AnalyzeIssueCmd(id, r)
    \/ \E id \in IssueIds, p \in Plans : Room(2) /\ PlanIssueCmd(id, p)
    \/ \E id \in IssueIds, c \in Contents, a \in Authors :
          Room(1) /\ AddCommentCmd(id, c, a)
    \/ Recover(TRUE)

SpecLive == Init /\ [][LiveNext]_vars

\* ------------------------------------------------------------------------
\* The service, replay on the running system and the archive task; the
\* clock counts days
\* ------------------------------------------------------------------------

\* cutoffDate.setDate(cutoffDate.getDate() - ARCHIVE_THRESHOLD_DAYS)
CutoffDate(t) == t - ARCHIVE_THRESHOLD_DAYS

\* issueDate < cutoffDate && issue.status !== 'closed'
ToArchive(w, id) ==
    /\ GetTime(w.issues[id].createdAt) < CutoffDate(w.now)
    /\ w.issues[id].status # "closed"

\* for (const issue of issuesToArchive) update(issue.id, { status: 'closed' })
RECURSIVE ArchiveEach(_, _)
ArchiveEach(w, ids) ==
    IF ids = {} THEN w
    ELSE LET id == CHOOSE x \in ids : TRUE
         IN  ArchiveEach(RepoUpdate(w, id, [status |-> "closed",
                                            updatedAt |-> ToISOString(w.now)]),
                         ids \ {id})

archiveOldIssues(w) ==
    ArchiveEach(w, { id \in DOMAIN w.issues : ToArchive(w, id) })

\* the archive task, at startup and once a day
ArchiveOldIssuesRun ==
    /\ Live
    /\ SetWorld(archiveOldIssues(World))
    /\ ret' = [op |-> "archiveOldIssues", kind |-> "value"]
    /\ UNCHANGED recovered
    /\ UNCHANGED retryVars

\* issues reported long ago and issues reported today
AgedIssueEvents ==
    { [id |-> i, title |-> t, description |-> d, author |-> a,
       createdAt |-> ToISOString(c)] :
        i \in IssueIds, t \in Titles, d \in Descriptions, a \in Authors,
        c \in {0 - ARCHIVE_THRESHOLD_DAYS - 1, 0} }

StatusNext ==
    \/ Tick
    \/ \E event \in AgedIssueEvents : ProcessIssueEventCmd(event)
    \/ \E id \in IssueIds, r \in Analyses : AnalyzeIssueCmd(id, r)
    \/ \E id \in IssueIds, p \in Plans : PlanIssueCmd(id, p)
    \/ \E id \in IssueIds, c \in Contents, a \in Authors :
          AddCommentCmd(id, c, a)
    \/ ReplayEventsCmd
    \/ ArchiveOldIssuesRun

SpecStatus == Init /\ [][StatusNext]_vars

\* ------------------------------------------------------------------------
\* Properties of the live pipeline and of recovery (checked under Spec)
\* ------------------------------------------------------------------------

\* an optional field of an object: << >> when absent, <<value>> when present
Field(obj, f) == IF f \in DOMAIN obj THEN <<obj[f]>> ELSE << >>

ReplayedFields ==
    {"status", "labels", "assignedTo", "confidence", "priority", "plan"}

SameAfterReplay(id) ==
    /\ Has(recovered.world, id)
    /\ \A f \in ReplayedFields :
          Field(findById(recovered.world, id), f) = Field(findById(World, id), f)
    /\ Len(findCommentsByIssueId(recovered.world, id))
          = Len(findCommentsByIssueId(World, id))

\* C1: after any sequence of live commands with the event store attached,
\* replaying the recorded events into a fresh repository gives every issue
\* the status, labels, assignedTo, confidence, priority, plan and number of
\* comments that the live repository holds.
LiveReplayEquivalence ==
    recovered.done => \A id \in DOMAIN issues : SameAfterReplay(id)

LiveReplayEquivalenceWitness ==
    /\ recovered.done
    /\ \E id \in DOMAIN issues :
          /\ "labels" \in DOMAIN issues[id]
          /\ "plan" \in DOMAIN issues[id]
          /\ Len(findCommentsByIssueId(World, id)) >= 2
          /\ SameAfterReplay(id)
          /\ recovered.world.issues[id].labels = issues[id].labels

\* C2: the sequence returned by getEvents() right after replayEvents() is
\* the sequence it returned right before, on the running system and on a
\* recovered one, with the event store attached to the replaying service.
ReplayLeavesLogUnchanged ==
    /\ ret.op = "replayEvents" => getEvents(World) = ret.before
    /\ recovered.done => getEvents(recovered.world) = recovered.copied

\* ------------------------------------------------------------------------
\* Properties of the event store (checked under SpecStore, SpecStoreOpen)
\* ------------------------------------------------------------------------

\* C8: every stored event carries a sequence number, and the i-th element
\* of getEvents() has sequence i (so the numbers start at 1 and increase).
EventsCarrySequence ==
    \A i \in 1..Len(getEvents(World)) :
        /\ "sequence" \in DOMAIN getEvents(World)[i]
        /\ getEvents(World)[i].sequence = i

\* C9: an appended event stays in the log at its position with the id,
\* type, issueId, timestamp and data it was stored with, whatever is called
\* afterwards and whatever callers do with objects they hold.
AppendOnlyLog ==
    /\ Len(events) >= Len(pushed)
    /\ \A i \in 1..Len(pushed) : events[i] = pushed[i]

\* the event a saveEvent call was given and the event a query returns for it
Corresponds(e, given) ==
    /\ e.type = given.type
    /\ e.issueId = given.issueId
    /\ e.data = given.data
    /\ given.id # Missing => e.id = given.id
    /\ given.timestamp # Missing => e.timestamp = given.timestamp

\* C10: getEvents() returns one event per saveEvent call, in call order, and
\* getEventsByIssueId(x) returns exactly the events of getEvents() whose
\* issueId is x, in the same relative order.
QueryOrder ==
    /\ ret.op = "getEvents" =>
          /\ Len(ret.result) = Len(saved)
          /\ \A i \in 1..Len(saved) : Corresponds(ret.result[i], saved[i])
    /\ ret.op = "getEventsByIssueId" =>
          LET OfIssue(e) == e.issueId = ret.issueId
          IN  ret.result = SelectSeq(getEvents(World), OfIssue)

QueryOrderWitness ==
    /\ ret.op = "getEventsByIssueId"
    /\ Len(saved) = 2
    /\ saved[1].issueId # ret.issueId
    /\ saved[2].issueId = ret.issueId
    /\ Len(ret.result) = 1
    /\ Corresponds(ret.result[1], saved[2])

\* C11: saveEvent gives the event an id and the current time when it has
\* none, keeps a supplied id and timestamp, stores a copy and returns the
\* stored event: the returned and the stored event are the same record, and
\* what the caller does to its input object afterwards does not reach the log.
SaveEventResult ==
    ret.op = "saveEvent" =>
        LET given == saved[Len(saved)]
            stored == getEvents(World)[Len(events)]
        IN  /\ stored.id = IF given.id = Missing THEN Uuid(uuidCount)
                                                  ELSE given.id
            /\ given.timestamp # Missing => stored.timestamp = given.timestamp
            /\ given.timestamp = Missing =>
                  \E t \in 0..now : stored.timestamp = ToISOString(t)
            /\ ret.result = stored
            /\ stored = pushed[Len(pushed)]

\* ------------------------------------------------------------------------
\* Properties of replay (checked under SpecReplay)
\* ------------------------------------------------------------------------

Replayed == "first" \in DOMAIN recovered

\* the positions in the log of the events a replay applied, in order
AppliedOrder(w) == [k \in 1..Len(w.trace) |-> w.trace[k].idx]

\* the event of the replayed log that a step of the first replay applied
EventAt(k) == recovered.copied[recovered.first.trace[k].idx]

\* C12: replay applies every event once, by ascending timestamp and, among
\* events with the same timestamp, in the order they were appended; two
\* replays of the same log apply the events in the same order.
ReplayOrder ==
    /\ Replayed =>
          LET order == AppliedOrder(recovered.first)
              log == recovered.copied
          IN  /\ Len(order) = Len(log)
              /\ \A j, k \in 1..Len(order) :
                    j < k =>
                      \/ GetTime(log[order[j]].timestamp)
                            < GetTime(log[order[k]].timestamp)
                      \/ /\ GetTime(log[order[j]].timestamp)
                              = GetTime(log[order[k]].timestamp)
                         /\ order[j] < order[k]
    /\ recovered.done =>
          AppliedOrder(recovered.second) = AppliedOrder(recovered.first)

ReplayOrderWitness ==
    /\ recovered.done
    /\ Len(recovered.copied) = MaxLog
    /\ AppliedOrder(recovered.first) = <<2, 3, 1>>
    /\ recovered.copied[2].timestamp = recovered.copied[3].timestamp

\* C13: when applying an event fails during replay, the failure is caught,
\* every later event in replay order is still applied, and replayEvents
\* returns normally.
ReplayFailureIsolation ==
    Replayed =>
        /\ ret.kind = "value"
        /\ AppliedOrder(recovered.first) = SortedEvents(recovered.copied)
        /\ \A k \in 1..Len(recovered.first.trace) :
              LET step == recovered.first.trace[k]
              IN  (EventAt(k).type = "ISSUE_CREATED"
                     /\ EventAt(k).data.id \notin DOMAIN step.before.issues)
                  => EventAt(k).data.id \in DOMAIN step.after.issues

ReplayFailureIsolationWitness ==
    /\ Replayed
    /\ \E j, k \in 1..Len(recovered.first.trace) :
          /\ j < k
          /\ recovered.first.trace[j].threw
          /\ EventAt(k).type = "ISSUE_CREATED"
          /\ recovered.first.trace[k].after # recovered.first.trace[k].before

IsKnown(e) == e.type \in EventTypes

\* C14: an event of unknown type is skipped by replay without failing and
\* without change to the repository, and the other events are applied as
\* if it were absent.
UnknownTypeSkipped ==
    Replayed =>
        /\ \A k \in 1..Len(recovered.first.trace) :
              ~IsKnown(EventAt(k)) =>
                  /\ ~recovered.first.trace[k].threw
                  /\ recovered.first.trace[k].after
                        = recovered.first.trace[k].before
        /\ Repo(recovered.first) =
              Repo(replayEvents(
                     RestoredFrom(SelectSeq(recovered.copied, IsKnown),
                                  recovered.start.uuidCount,
                                  recovered.start.now)))

UnknownTypeSkippedWitness ==
    /\ Replayed
    /\ Len(recovered.copied) = MaxLog
    /\ AppliedOrder(recovered.first) = <<1, 2, 3>>
    /\ recovered.copied[1].type = "ISSUE_CREATED"
    /\ recovered.copied[1].issueId = "i2"
    /\ recovered.copied[2].type = "UNKNOWN"
    /\ recovered.copied[3].type = "ISSUE_ANALYZED"
    /\ recovered.copied[3].issueId = "i2"
    /\ "labels" \in DOMAIN recovered.first.issues["i2"]

LLMFields == {"labels", "assignedTo", "confidence", "priority", "plan"}

\* C15: replay calls neither LLMClient.analyzeIssue nor LLMClient.planIssue,
\* and the labels, assignedTo, confidence, priority and plan an issue has
\* after replay are values carried by an event recorded for that issue.
ReplayCallsNoClient ==
    Replayed =>
        /\ recovered.first.llmCalls = << >>
        /\ \A id \in DOMAIN recovered.first.issues :
              \A f \in LLMFields \cap DOMAIN recovered.first.issues[id] :
                  \E i \in 1..Len(recovered.copied) :
                      /\ recovered.copied[i].issueId = id
                      /\ f \in DOMAIN recovered.copied[i].data
                      /\ recovered.copied[i].data[f]
                            = recovered.first.issues[id][f]

ReplayCallsNoClientWitness ==
    /\ Replayed
    /\ \E id \in DOMAIN recovered.first.issues :
          /\ "labels" \in DOMAIN recovered.first.issues[id]
          /\ "plan" \in DOMAIN recovered.first.issues[id]

\* C16: replaying the same log into an empty repository on two separate
\* runs gives the same issues, field by field (updatedAt included), and the
\* same comments in the same order.
ReplayDeterminism ==
    recovered.done => Repo(recovered.second) = Repo(recovered.first)

\* C18: during replay an ISSUE_CREATED event for an id the repository already
\* holds fails (a failure of that event only) and leaves the issue unchanged.
CreatedConflictFails ==
    Replayed =>
        \A k \in 1..Len(recovered.first.trace) :
            (EventAt(k).type = "ISSUE_CREATED"
               /\ EventAt(k).data.id
                     \in DOMAIN recovered.first.trace[k].before.issues)
            => /\ recovered.first.trace[k].threw
               /\ recovered.first.trace[k].after
                     = recovered.first.trace[k].before

\* ------------------------------------------------------------------------
\* Properties of the service's create and update paths (checked under
\* SpecLive)
\* ------------------------------------------------------------------------

\* the issue a Created payload stands for
CreatedIssue(payload) ==
    [id |-> payload.id, title |-> payload.title,
     description |-> payload.description, author |-> payload.author,
     createdAt |-> payload.createdAt, comments |-> << >>,
     status |-> "open", updatedAt |-> payload.createdAt]

\* C17: a Created event for an id that has no issue yet, live or replayed,
\* creates an issue with the payload's title, description, author and
\* createdAt, status open, no comments and updatedAt equal to createdAt.
CreatedTransition ==
    /\ (ret.op = "processIssueEvent" /\ events # << >>
          /\ events[Len(events)].type = "ISSUE_CREATED")
       => findById(World, events[Len(events)].data.id)
            = CreatedIssue(events[Len(events)].data)
    /\ recovered.done =>
          \A k \in 1..Len(recovered.world.trace) :
              LET step == recovered.world.trace[k]
                  e == recovered.copied[step.idx]
              IN  (e.type = "ISSUE_CREATED"
                     /\ e.data.id \notin DOMAIN step.before.issues)
                  => /\ e.data.id \in DOMAIN step.after.issues
                     /\ step.after.issues[e.data.id] = CreatedIssue(e.data)
                     /\ FilterComments(step.after.comments, e.data.id) = << >>

CreatedTransitionWitness ==
    /\ recovered.done
    /\ Len(events) >= 2
    /\ events[2].type = "ISSUE_CREATED"
    /\ events[2].data.title = "t2"
    /\ GetTime(events[2].timestamp) > GetTime(events[2].data.createdAt)
    /\ events[2].data.id \in DOMAIN recovered.world.issues
    /\ recovered.world.trace[2].after.issues[events[2].data.id]
          = CreatedIssue(events[2].data)

\* what processIssueEvent(event) does to an issue that exists
UpsertEffect(event) ==
    /\ DOMAIN issues' = DOMAIN issues
    /\ \A id \in DOMAIN issues \ {event.id} : issues'[id] = issues[id]
    /\ DOMAIN issues'[event.id] = DOMAIN issues[event.id]
    /\ issues'[event.id].title = event.title
    /\ issues'[event.id].description = event.description
    /\ \A f \in DOMAIN issues[event.id]
                 \ {"title", "description", "updatedAt"} :
          issues'[event.id][f] = issues[event.id][f]
    /\ comments' = comments
    /\ attached =>
          /\ Len(events') = Len(events) + 1
          /\ SubSeq(events', 1, Len(events)) = events
          /\ events'[Len(events')].type = "ISSUE_UPDATED"
          /\ events'[Len(events')].issueId = event.id
          /\ events'[Len(events')].data.title = event.title
          /\ events'[Len(events')].data.description = event.description

\* C19: processIssueEvent for an id that already has an issue replaces the
\* issue's title and description with the event's, leaves its other fields
\* (updatedAt apart) and its comments unchanged, creates no second issue,
\* and appends one ISSUE_UPDATED event carrying the new title and description.
LiveUpsert ==
    [][\A event \in LiveIssueEvents :
          (Has(World, event.id) /\ ProcessIssueEventCmd(event))
          => UpsertEffect(event)]_vars

LiveUpsertWitness ==
    /\ ret.op = "processIssueEvent"
    /\ Len(events) = MaxLive
    /\ events[1].type = "ISSUE_CREATED"
    /\ events[1].data.title = "t1"
    /\ events[MaxLive].type = "ISSUE_UPDATED"
    /\ events[MaxLive].data.title = "t2"
    /\ events[MaxLive].issueId = events[1].issueId
    /\ issues[events[1].issueId].title = "t2"
    /\ "labels" \in DOMAIN issues[events[1].issueId]
    /\ findCommentsByIssueId(World, events[1].issueId) # << >>

\* ------------------------------------------------------------------------
\* Properties of the issue status (checked under SpecStatus)
\* ------------------------------------------------------------------------

\* C20: an issue is open when it is created; no service command, replay or
\* archive run sets a status to in_progress or reopens a closed issue.
StatusMachine ==
    [][\A id \in DOMAIN issues' :
          /\ issues'[id].status # "in_progress"
          /\ id \notin DOMAIN issues => issues'[id].status = "open"
          /\ (id \in DOMAIN issues /\ issues[id].status = "closed")
                => issues'[id].status = "closed"]_vars

StatusMachineWitness ==
    /\ ret.op = "replayEvents"
    /\ \E id \in DOMAIN issues :
          /\ issues[id].status = "closed"
          /\ "labels" \in DOMAIN issues[id]
          /\ \E i \in 1..Len(events) :
                /\ events[i].type = "ISSUE_UPDATED"
                /\ events[i].issueId = id

\* ------------------------------------------------------------------------
\* The repository driven directly, next to the service that owns it
\* ------------------------------------------------------------------------

\* issues handed to save
RepoIssues ==
    { [id |-> i, title |-> "t1", description |-> "d1", author |-> "alice",
       createdAt |-> ToISOString(0), updatedAt |-> ToISOString(0)] :
        i \in IssueIds }

\* Partial<Issue> handed to update
RepoChanges == { [id |-> "i2", title |-> "t2"] }

\* comments handed to addComment, with an id or without one
RepoComments ==
    { [id |-> k, issueId |-> i, content |-> UserComment("c1"),
       author |-> "alice", createdAt |-> ToISOString(0)] :
        k \in GivenCommentIds \cup {Missing}, i \in IssueIds }

RepoSaveCall(issue) ==
    /\ Live
    /\ SetWorld(RepoSave(World, issue))
    /\ ret' = [op |-> "save", kind |-> "value"]
    /\ UNCHANGED recovered
    /\ UNCHANGED retryVars

RepoUpdateCall(id, issueData) ==
    /\ Live
    /\ SetWorld(RepoUpdate(World, id, issueData))
    /\ ret' = [op |-> "update",
               kind |-> IF Has(World, id) THEN "value" ELSE "null"]
    /\ UNCHANGED recovered
    /\ UNCHANGED retryVars

RepoDeleteCall(id) ==
    /\ Live
    /\ SetWorld(RepoDelete(World, id))
    /\ ret' = [op |-> "delete", kind |-> "value", result |-> Has(World, id)]
    /\ UNCHANGED recovered
    /\ UNCHANGED retryVars

RepoAddCommentCall(comment) ==
    /\ Live
    /\ Len(comments) < MaxRepoComments
    /\ uuidCount < MaxRepoUuids
    /\ LET out == RepoAddComment(World, comment)
       IN  /\ SetWorld(out.w)
           /\ ret' = IF out.ok
                     THEN [op |-> "repository.addComment", kind |-> "value"]
                     ELSE [op |-> "repository.addComment", kind |-> "throw",
                           error |-> out.error]
    /\ UNCHANGED recovered
    /\ UNCHANGED retryVars

RepoDeleteCommentCall(commentId) ==
    /\ Live
    /\ SetWorld(RepoDeleteComment(World, commentId))
    /\ ret' = [op |-> "deleteComment", kind |-> "value",
               result |-> \E i \in 1..Len(comments) : comments[i].id = commentId]
    /\ UNCHANGED recovered
    /\ UNCHANGED retryVars

RepoRoom(n) ==
    /\ Len(events) + n <= MaxRepoLog
    /\ Len(comments) < MaxRepoComments

RepoNext ==
    \/ \E issue \in RepoIssues : RepoSaveCall(issue)
    \/ \E id \in IssueIds, d \in RepoChanges : RepoUpdateCall(id, d)
    \/ \E id \in IssueIds : RepoDeleteCall(id)
    \/ \E comment \in RepoComments : RepoAddCommentCall(comment)
    \/ \E i \in 1..Len(comments) : RepoDeleteCommentCall(comments[i].id)
    \/ \E event \in IssueEvents : RepoRoom(1) /\ ProcessIssueEventCmd(event)
    \/ \E id \in IssueIds, c \in Contents, a \in Authors :
          RepoRoom(1) /\ AddCommentCmd(id, c, a)
    \/ Len(events) <= MaxRepoLog /\ ReplayEventsCmd

SpecRepo == Init /\ [][RepoNext]_vars

\* ------------------------------------------------------------------------
\* Commands in flight.  analyzeIssue and planIssue read the issue, await the
\* LLM client (a timer or a network call) and write when it has answered;
\* other requests are served in between.  processIssueEvent and addComment
\* await the in-memory repository and store only and run to completion.
\* ------------------------------------------------------------------------

clientVarsButTasks == <<config, rpc, opName, opIssueId, attempt, delayMs,
                        lastError, outcome, opCalls, waits, rlog>>

clientVarsButHeld == <<clientVarsButTasks, tasks>>

clientVars == <<clientVarsButHeld, held>>

Without(seq, k) == [i \in 1..(Len(seq) - 1) |-> IF i < k THEN seq[i] ELSE seq[i + 1]]

AsyncRoom(n) == Len(events) + n <= MaxAsyncLog

\* const issue = await findById(id); ... await this.llmClient.<method>(issue)
CommandBegins(method, id) ==
    /\ Live
    /\ Has(World, id)
    /\ Len(pending) < MaxPending
    /\ pending' = Append(pending, [cmd |-> method, id |-> id,
                                    issue |-> findById(World, id)])
    /\ UNCHANGED storeVars
    /\ UNCHANGED clientVars

\* the LLM client answers r: update, saveEvent, addSystemComment, return
AnalyzeIssueEnds(k, r) ==
    /\ Live
    /\ k \in 1..Len(pending)
    /\ pending[k].cmd = "analyzeIssue"
    /\ AsyncRoom(2)
    /\ LET after == analyzeIssue(World, pending[k].id, r)
       IN  /\ SetWorld(after)
           /\ ret' = [op |-> "analyzeIssue", kind |-> "value",
                      llmCalls |-> after.llmCalls]
    /\ pending' = Without(pending, k)
    /\ UNCHANGED recovered
    /\ UNCHANGED clientVars

\* the LLM client answers [plan: p]
PlanIssueEnds(k, p) ==
    /\ Live
    /\ k \in 1..Len(pending)
    /\ pending[k].cmd = "planIssue"
    /\ AsyncRoom(2)
    /\ LET after == planIssue(World, pending[k].id, p)
       IN  /\ SetWorld(after)
           /\ ret' = [op |-> "planIssue", kind |-> "value",
                      llmCalls |-> after.llmCalls]
    /\ pending' = Without(pending, k)
    /\ UNCHANGED recovered
    /\ UNCHANGED clientVars

\* the LLM client fails: the error is logged and rethrown
CommandFails(k) ==
    /\ Live
    /\ k \in 1..Len(pending)
    /\ LET out == llmClientRejects(World, pending[k].id, LLMError)
       IN  /\ SetWorld(out.w)
           /\ ret' = [op |-> pending[k].cmd, kind |-> out.kind,
                      error |-> out.error]
    /\ pending' = Without(pending, k)
    /\ UNCHANGED recovered
    /\ UNCHANGED clientVars

AsyncNext ==
    \/ \E method \in {"analyzeIssue", "planIssue"}, id \in IssueIds :
          CommandBegins(method, id)
    \/ \E k \in 1..MaxPending, r \in Analyses : AnalyzeIssueEnds(k, r)
    \/ \E k \in 1..MaxPending, p \in Plans : PlanIssueEnds(k, p)
    \/ \E k \in 1..MaxPending : CommandFails(k)
    \/ \E event \in IssueEvents : AsyncRoom(1) /\ ProcessIssueEventCmd(event)
    \/ \E id \in IssueIds, c \in Contents, a \in Authors :
          AsyncRoom(1) /\ AddCommentCmd(id, c, a)

SpecAsync == Init /\ [][AsyncNext]_vars

\* ------------------------------------------------------------------------
\* A caller of getEvents / getEventsByIssueId that keeps the returned array
\* and iterates it while other requests append to the log.
\* ------------------------------------------------------------------------

\* mutant: getEvents hands out this.events itself
NewArray_Alias(items) == [array |-> "this.events", items |-> items]

\* [...this.events] and Array.prototype.filter build a new array
NewArray(items) == [array |-> "new", items |-> items]

\* the elements the caller finds in the array it holds
Elements(h, w) == IF h.array = "this.events" THEN w.events ELSE h.items

QueryRoom(n) == Len(events) + n <= MaxQueryLog

\* const result = await eventStore.getEvents()
GetEventsHeld ==
    /\ Live
    /\ held' = NewArray(getEvents(World))
                  @@ [issueId |-> "all", at |-> Len(events),
                      seen |-> << >>, done |-> FALSE]
    /\ ret' = [op |-> "getEvents", kind |-> "value",
               result |-> getEvents(World)]
    /\ UNCHANGED <<issues, comments, events, attached, uuidCount, now, saved,
                   pushed, recovered>>
    /\ UNCHANGED <<clientVarsButHeld, pending>>

\* const result = await eventStore.getEventsByIssueId(issueId)
GetEventsByIssueIdHeld(issueId) ==
    /\ Live
    /\ held' = NewArray(getEventsByIssueId(World, issueId))
                  @@ [issueId |-> issueId, at |-> Len(events),
                      seen |-> << >>, done |-> FALSE]
    /\ ret' = [op |-> "getEventsByIssueId", kind |-> "value",
               issueId |-> issueId,
               result |-> getEventsByIssueId(World, issueId)]
    /\ UNCHANGED <<issues, comments, events, attached, uuidCount, now, saved,
                   pushed, recovered>>
    /\ UNCHANGED <<clientVarsButHeld, pending>>

\* one turn of `for (const e of result)`: the array iterator compares its
\* index with the array's length and reads the element at the index
IterateHeld ==
    /\ Live
    /\ ~held.done
    /\ LET arr == Elements(held, World)
           idx == Len(held.seen) + 1
       IN  held' = IF idx <= Len(arr)
                   THEN [held EXCEPT !.seen = Append(@, arr[idx])]
                   ELSE [held EXCEPT !.done = TRUE]
    /\ UNCHANGED storeVars
    /\ UNCHANGED <<clientVarsButHeld, pending>>

QueryNext ==
    \/ GetEventsHeld
    \/ \E id \in IssueIds : GetEventsByIssueIdHeld(id)
    \/ IterateHeld
    \/ QueryRoom(1) /\ \E event \in IssueEvents : ProcessIssueEventCmd(event)
    \/ QueryRoom(1) /\ \E id \in IssueIds, c \in Contents, a \in Authors :
                           AddCommentCmd(id, c, a)

SpecQuery == Init /\ [][QueryNext]_vars

\* ------------------------------------------------------------------------
\* Commands whose LLM call fails with any error, among commands that succeed
\* ------------------------------------------------------------------------

FailRoom(n) == Len(events) + n <= MaxFailLog

FailNext ==
    \/ FailRoom(1) /\ \E event \in IssueEvents : ProcessIssueEventCmd(event)
    \/ FailRoom(2) /\ \E id \in IssueIds, r \in Analyses : AnalyzeIssueCmd(id, r)
    \/ FailRoom(2) /\ \E id \in IssueIds, p \in Plans : PlanIssueCmd(id, p)
    \/ \E id \in IssueIds, error \in Errors : AnalyzeIssueFails(id, error)
    \/ \E id \in IssueIds, error \in Errors : PlanIssueFails(id, error)

SpecFail == Init /\ [][FailNext]_vars

\* ------------------------------------------------------------------------
\* Calls as the event loop runs them.  An async function runs synchronously
\* up to an await.  The repository's and the store's methods complete within
\* the call, so the caller's continuation is queued as a microtask, and
\* microtasks run first in, first out.  The LLM client answers later.
\* A call in flight is [cmd, fn, pc, ...]: the call made by the caller, the
\* function suspended and the await it is suspended at.
\* ------------------------------------------------------------------------

NoLoop == [sorted |-> << >>, pos |-> 0, started |-> 0, applied |-> << >>]

NoArg == [none |-> TRUE]

Suspended(t, fn, pc) == [t EXCEPT !.fn = fn, !.pc = pc]

Returned(t, kind) == [t EXCEPT !.fn = "none", !.pc = "done", !.kind = kind]

\* mutant: the call proceeds as if findById had found the issue
Called_FoundAlways(w, cmd, id, arg) ==
    [cmd |-> cmd, fn |-> cmd, pc |-> "findById", id |-> id, arg |-> arg,
     found |-> TRUE, kind |-> "none", loop |-> NoLoop]

\* a call of fn(id, arg), run up to `await this.issueRepository.findById`
Called(w, cmd, id, arg) ==
    [cmd |-> cmd, fn |-> cmd, pc |-> "findById", id |-> id, arg |-> arg,
     found |-> Has(w, id), kind |-> "none", loop |-> NoLoop]

\* processIssueEvent resumed after the await it is suspended at
ProcessIssueEventStep(w, t) ==
    LET change == [title |-> t.arg.title,
                   description |-> t.arg.description,
                   updatedAt |-> ToISOString(w.now)]
    IN  CASE t.pc = "findById" ->
                IF t.found
                THEN [w |-> RepoUpdate(w, t.id, change),
                      t |-> Suspended(t, t.fn, "update")]
                ELSE [w |-> RepoSave(w, issueEventToIssue(t.arg)),
                      t |-> Suspended(t, t.fn, "save")]
          [] t.pc = "update" ->
                [w |-> RecordEvent(w, "ISSUE_UPDATED", change, t.id),
                 t |-> Suspended(t, t.fn, "saveEvent")]
          [] t.pc = "save" ->
                [w |-> RecordEvent(w, "ISSUE_CREATED", t.arg, t.id),
                 t |-> Suspended(t, t.fn, "saveEvent")]
          [] t.pc = "saveEvent" ->
                IF t.cmd = "replayEvents"
                THEN [w |-> w, t |-> Suspended(t, "applyEvent", "processIssueEvent")]
                ELSE [w |-> w, t |-> Returned(t, "value")]

\* addComment resumed, called by a request or as addSystemComment
AddCommentStep(w, t) ==
    CASE t.pc = "findById" ->
            IF ~t.found THEN [w |-> w, t |-> Returned(t, "throw")]
            ELSE LET w1 == TakeUuid(w)
                     comment == [id |-> Uuid(w1.uuidCount), issueId |-> t.id,
                                 content |-> t.arg.content,
                                 author |-> t.arg.author,
                                 createdAt |-> ToISOString(w1.now)]
                     added == RepoAddComment(w1, comment)
                 IN  IF added.ok
                     THEN [w |-> added.w,
                           t |-> [Suspended(t, t.fn, "addComment")
                                     EXCEPT !.arg = added.comment]]
                     ELSE [w |-> added.w, t |-> Returned(t, "throw")]
      [] t.pc = "addComment" ->
            [w |-> RecordEvent(w, "COMMENT_ADDED", t.arg, t.id),
             t |-> Suspended(t, t.fn, "saveEvent")]
      [] t.pc = "saveEvent" -> [w |-> w, t |-> Returned(t, "value")]

\* the fields analyzeIssue / planIssue pass to update, and the event they save
LLMChange(w, t) ==
    IF t.cmd = "analyzeIssue"
    THEN [labels |-> t.arg.labels, assignedTo |-> t.arg.assignedTo,
          confidence |-> t.arg.confidence, priority |-> t.arg.priority,
          updatedAt |-> ToISOString(w.now)]
    ELSE [plan |-> t.arg, updatedAt |-> ToISOString(w.now)]

LLMEvent(w, t) ==
    IF t.cmd = "analyzeIssue"
    THEN RecordEvent(w, "ISSUE_ANALYZED", LLMChange(w, t), t.id)
    ELSE RecordEvent(w, "ISSUE_PLANNED", [plan |-> t.arg], t.id)

\* this.addSystemComment(id, ...), run up to addComment's first await
SystemComment(w, t) ==
    [t EXCEPT !.fn = "addComment", !.pc = "findById",
              !.found = Has(w, t.id),
              !.arg = [content |-> IF t.cmd = "analyzeIssue"
                                   THEN AnalysisComment(t.arg)
                                   ELSE PlanComment,
                       author |-> "system"]]

\* mutant: an analysis without a priority awaits once more between update
\* and saveEvent
LLMCommandStep_AwaitsTwice(w, t) ==
    CASE t.pc = "findById" ->
            IF ~t.found THEN [w |-> w, t |-> Returned(t, "null")]
            ELSE [w |-> w, t |-> Suspended(t, t.fn, "llmClient")]
      [] t.pc = "llmClient" ->
            [w |-> RepoUpdate(w, t.id, LLMChange(w, t)),
             t |-> [Suspended(t, t.fn,
                              IF t.cmd = "analyzeIssue"
                                 /\ t.arg.priority = "undefined"
                              THEN "flush" ELSE "update")
                      EXCEPT !.found = Has(w, t.id)]]
      [] t.pc = "flush" -> [w |-> w, t |-> Suspended(t, t.fn, "update")]
      [] t.pc = "update" ->
            IF w.attached /\ t.found
            THEN [w |-> LLMEvent(w, t), t |-> Suspended(t, t.fn, "saveEvent")]
            ELSE [w |-> w, t |-> SystemComment(w, t)]
      [] t.pc = "saveEvent" -> [w |-> w, t |-> SystemComment(w, t)]

\* analyzeIssue / planIssue resumed; at llmClient, t.arg is the answer
LLMCommandStep(w, t) ==
    CASE t.pc = "findById" ->
            IF ~t.found THEN [w |-> w, t |-> Returned(t, "null")]
            ELSE [w |-> w, t |-> Suspended(t, t.fn, "llmClient")]
      [] t.pc = "llmClient" ->
            [w |-> RepoUpdate(w, t.id, LLMChange(w, t)),
             t |-> [Suspended(t, t.fn, "update") EXCEPT !.found = Has(w, t.id)]]
      [] t.pc = "update" ->
            IF w.attached /\ t.found
            THEN [w |-> LLMEvent(w, t), t |-> Suspended(t, t.fn, "saveEvent")]
            ELSE [w |-> w, t |-> SystemComment(w, t)]
      [] t.pc = "saveEvent" -> [w |-> w, t |-> SystemComment(w, t)]

\* mutant: the loop runs over this.events itself
EventsToReplay_Live(w, t) == Len(w.events)

\* for (const event of sortedEvents): the length of the sorted copy
EventsToReplay(w, t) == Len(t.loop.sorted)

\* the position in this.events of the k-th event of the loop
LoopIndex(t, k) == IF k <= Len(t.loop.sorted) THEN t.loop.sorted[k] ELSE k

\* the next turn of the loop in InMemoryEventStore.replayEvents, run up to
\* the first await of applyEvent (or of processIssueEvent, for ISSUE_CREATED)
NextEvent(w, t) ==
    LET k == t.loop.pos + 1
        idx == LoopIndex(t, k)
        t1 == [t EXCEPT !.loop.pos = k, !.loop.applied = Append(@, idx)]
    IN  IF k > EventsToReplay(w, t)
        THEN [w |-> w, t |-> Returned(t, "value")]
        ELSE IF w.events[idx].type = "ISSUE_CREATED"
             THEN [w |-> w,
                   t |-> [t1 EXCEPT !.fn = "processIssueEvent",
                                    !.pc = "findById",
                                    !.id = w.events[idx].data.id,
                                    !.arg = w.events[idx].data,
                                    !.found = Has(w, w.events[idx].data.id)]]
             ELSE [w |-> applyEvent(w, idx),
                   t |-> Suspended(t1, "applyEvent", "repository")]

\* IssueService.replayEvents and InMemoryEventStore.replayEvents, run up to
\* the first await
ReplayCalled(w) ==
    LET t == [cmd |-> "replayEvents", fn |-> "replayEvents",
              pc |-> "applyEvent", id |-> "none", arg |-> NoArg,
              found |-> FALSE, kind |-> "none",
              loop |-> [sorted |-> SortedEvents(w.events), pos |-> 0,
                        started |-> Len(w.events), applied |-> << >>]]
    IN  IF ~w.attached THEN [w |-> w, t |-> Returned(t, "value")]
        ELSE NextEvent(w, t)

\* the segment a suspended call runs when its await has resolved
TaskStep(w, t) ==
    CASE t.fn = "processIssueEvent" -> ProcessIssueEventStep(w, t)
      [] t.fn = "addComment" -> AddCommentStep(w, t)
      [] t.fn \in {"analyzeIssue", "planIssue"} -> LLMCommandStep(w, t)
      [] t.fn = "applyEvent" ->
            [w |-> w, t |-> Suspended(t, "replayEvents", "applyEvent")]
      [] t.fn = "replayEvents" -> NextEvent(w, t)

\* the events a call may still append
RECURSIVE Owed(_)
Owed(ts) ==
    IF ts = << >> THEN 0
    ELSE Owed(Tail(ts)) +
         CASE Head(ts).cmd \in {"analyzeIssue", "planIssue"} -> 2
           [] Head(ts).cmd = "replayEvents" ->
                 Cardinality({ k \in 1..Len(Head(ts).loop.sorted) :
                     /\ k >= Head(ts).loop.pos
                     /\ events[Head(ts).loop.sorted[k]].type = "ISSUE_CREATED" })
           [] OTHER -> 1

RoomFor(n, max) ==
    /\ Len(tasks) + Len(pending) < MaxTasks
    /\ Len(events) + Owed(tasks) + Owed(pending) + n <= max

TaskRoom(n) == RoomFor(n, MaxTaskLog)

AnswerRoom(n) == RoomFor(n, MaxAnswerLog)

LoopRoom(n) == RoomFor(n, MaxLoopLog)

\* where a call goes after a segment: back of the microtask queue, the LLM
\* client, or back to its caller
Continues(out) ==
    /\ SetWorld(out.w)
    /\ CASE out.t.pc = "done" ->
              /\ tasks' = Tail(tasks)
              /\ pending' = pending
              /\ ret' = [op |-> out.t.cmd, kind |-> out.t.kind,
                         started |-> out.t.loop.started,
                         applied |-> out.t.loop.applied]
         [] out.t.pc = "llmClient" ->
              /\ tasks' = Tail(tasks)
              /\ pending' = Append(pending, out.t)
              /\ ret' = ret
         [] OTHER ->
              /\ tasks' = Append(Tail(tasks), out.t)
              /\ pending' = pending
              /\ ret' = ret

\* a caller starts a call: its first segment runs at once
Starts(out) ==
    /\ SetWorld(out.w)
    /\ IF out.t.pc = "done"
       THEN /\ tasks' = tasks
            /\ ret' = [op |-> out.t.cmd, kind |-> out.t.kind,
                       started |-> out.t.loop.started,
                       applied |-> out.t.loop.applied]
       ELSE /\ tasks' = Append(tasks, out.t)
            /\ ret' = ret
    /\ UNCHANGED <<pending, recovered, held>>
    /\ UNCHANGED clientVarsButTasks

ProcessIssueEventStarts(event) ==
    /\ Starts([w |-> World,
               t |-> Called(World, "processIssueEvent", event.id, event)])

AddCommentStarts(id, content, author) ==
    /\ Starts([w |-> World,
               t |-> Called(World, "addComment", id,
                            [content |-> UserComment(content),
                             author |-> author])])

LLMCommandStarts(cmd, id) ==
    /\ Starts([w |-> World, t |-> Called(World, cmd, id, NoArg)])

ReplayEventsStarts ==
    /\ Starts(ReplayCalled(World))

\* the microtask at the head of the queue runs
RunMicrotask ==
    /\ tasks # << >>
    /\ Continues(TaskStep(World, Head(tasks)))
    /\ UNCHANGED <<recovered, held>>
    /\ UNCHANGED clientVarsButTasks

\* the LLM client resolves the k-th call awaiting it
LLMAnswers(k, cmd, answer) ==
    /\ k \in 1..Len(pending)
    /\ pending[k].cmd = cmd
    /\ tasks' = Append(tasks, [pending[k] EXCEPT !.arg = answer])
    /\ pending' = Without(pending, k)
    /\ UNCHANGED storeVars
    /\ UNCHANGED held
    /\ UNCHANGED clientVarsButTasks

TaskNext ==
    \/ Tick
    \/ TaskRoom(1) /\ \E event \in IssueEvents : ProcessIssueEventStarts(event)
    \/ TaskRoom(1) /\ \E id \in IssueIds, c \in Contents, a \in Authors :
                          AddCommentStarts(id, c, a)
    \/ TaskRoom(2) /\ \E cmd \in {"analyzeIssue", "planIssue"}, id \in IssueIds :
                          LLMCommandStarts(cmd, id)
    \/ TaskRoom(CreatedCount(events)) /\ ReplayEventsStarts
    \/ RunMicrotask
    \/ \E k \in 1..MaxTasks, r \in Analyses : LLMAnswers(k, "analyzeIssue", r)
    \/ \E k \in 1..MaxTasks, p \in Plans : LLMAnswers(k, "planIssue", p)

SpecTasks == Init /\ [][TaskNext]_vars

\* replays among calls of processIssueEvent and addComment
LoopNext ==
    \/ LoopRoom(1) /\ \E event \in IssueEvents : ProcessIssueEventStarts(event)
    \/ LoopRoom(1) /\ \E id \in IssueIds, c \in Contents, a \in Authors :
                          AddCommentStarts(id, c, a)
    \/ LoopRoom(CreatedCount(events)) /\ ReplayEventsStarts
    \/ RunMicrotask

\* every queued microtask runs
SpecLoop == Init /\ [][LoopNext]_vars /\ WF_vars(RunMicrotask)

\* analyzeIssue and planIssue calls in flight together
AnswerNext ==
    \/ AnswerRoom(1) /\ \E event \in IssueEvents : ProcessIssueEventStarts(event)
    \/ AnswerRoom(2) /\ \E cmd \in {"analyzeIssue", "planIssue"}, id \in IssueIds :
                            LLMCommandStarts(cmd, id)
    \/ RunMicrotask
    \/ \E k \in 1..MaxTasks, r \in Analyses : LLMAnswers(k, "analyzeIssue", r)
    \/ \E k \in 1..MaxTasks, p \in Plans : LLMAnswers(k, "planIssue", p)

SpecAnswers == Init /\ [][AnswerNext]_vars

\* ------------------------------------------------------------------------
\* Properties of the commands' failure paths
\* ------------------------------------------------------------------------

AddCommentNotFound ==
    [][\A id \in IssueIds :
          (/\ ~Has(World, id)
           /\ \/ \E c \in Contents, a \in Authors : AddCommentCmd(id, c, a)
              \/ \E comment \in RepoComments :
                    comment.issueId = id /\ RepoAddCommentCall(comment))
          => /\ ret'.kind = "throw"
             /\ ret'.error = NotFound(id)
             /\ UNCHANGED <<issues, comments, events>>]_vars

AddCommentNotFoundWitness ==
    /\ ret.op = "addComment"
    /\ ret.kind = "throw"
    /\ ret.error = NotFound("i2")
    /\ DOMAIN issues = {"i1"}
    /\ comments # << >>

AddCommentNotFoundRepoWitness ==
    /\ ret.op = "repository.addComment"
    /\ ret.kind = "throw"
    /\ ret.error = NotFound("i2")
    /\ DOMAIN issues = {"i1"}
    /\ comments # << >>

\* ------------------------------------------------------------------------
\* Properties of the stored comments
\* ------------------------------------------------------------------------

CommentsOnlyGrow ==
    [][\A id \in DOMAIN issues :
          LET before == findById(World, id).comments
              after == FilterComments(comments', id)
          IN  /\ id \in DOMAIN issues'
              /\ \A i \in 1..Len(before) :
                    \E j \in 1..Len(after) : after[j] = before[i]]_vars

\* a replay on the running system whose log holds two comments of an issue
CommentsOnlyGrowWitness ==
    /\ ret.op = "replayEvents"
    /\ Len(findCommentsByIssueId(World, "i1")) = 2
    /\ Len(events) > Len(ret.before)
    /\ \E i \in 1..Len(ret.before) : ret.before[i].type = "COMMENT_ADDED"

\* C25: the comments of an issue, as findCommentsByIssueId and findById
\* return them, stand in the order of the COMMENT_ADDED events of that issue
\* in the log, on the running system and on a system rebuilt by replay.
CommentIds(cs) == [i \in 1..Len(cs) |-> cs[i].id]

CommentEventIds(evs, id) ==
    LET OfIssue(e) == e.type = "COMMENT_ADDED" /\ e.issueId = id
        sel == SelectSeq(evs, OfIssue)
    IN  [i \in 1..Len(sel) |-> sel[i].data.id]

CommentOrder ==
    /\ \A id \in DOMAIN issues :
          /\ CommentIds(findCommentsByIssueId(World, id))
                = CommentEventIds(events, id)
          /\ findById(World, id).comments = findCommentsByIssueId(World, id)
    /\ recovered.done =>
          \A id \in DOMAIN recovered.world.issues :
             CommentIds(findCommentsByIssueId(recovered.world, id))
               = CommentEventIds(recovered.copied, id)

\* two comments of one issue, recorded at different times, then replayed
CommentOrderWitness ==
    /\ recovered.done
    /\ Len(findCommentsByIssueId(recovered.world, "i1")) = 2
    /\ Len(findCommentsByIssueId(World, "i1")) = 2
    /\ comments[1].createdAt # comments[2].createdAt

\* ------------------------------------------------------------------------
\* Properties of what the commands record
\* ------------------------------------------------------------------------

\* the events a step appended, and their types
Appended == SubSeq(events', Len(events) + 1, Len(events'))

AppendedTypes == [i \in 1..Len(Appended) |-> Appended[i].type]

\* whether a step changed what findById shows of the issue stored under id
IssueChanged(id) ==
    \/ id \notin DOMAIN issues
    \/ issues'[id] # issues[id]
    \/ FilterComments(comments', id) # FilterComments(comments, id)

\* the events each successful command appends
CommandsAreLogged ==
    /\ \A event \in IssueEvents \cup AgedIssueEvents :
          ProcessIssueEventCmd(event) =>
             /\ AppendedTypes \in {<<"ISSUE_CREATED">>, <<"ISSUE_UPDATED">>}
             /\ Appended[1].issueId = event.id
    /\ \A id \in DOMAIN issues :
          /\ (\E r \in Analyses : AnalyzeIssueCmd(id, r)) =>
                /\ AppendedTypes = <<"ISSUE_ANALYZED", "COMMENT_ADDED">>
                /\ \A i \in 1..2 : Appended[i].issueId = id
          /\ (\E p \in Plans : PlanIssueCmd(id, p)) =>
                /\ AppendedTypes = <<"ISSUE_PLANNED", "COMMENT_ADDED">>
                /\ \A i \in 1..2 : Appended[i].issueId = id
          /\ (\E c \in Contents, a \in Authors : AddCommentCmd(id, c, a)) =>
                /\ AppendedTypes = <<"COMMENT_ADDED">>
                /\ Appended[1].issueId = id

\* C26: with an event store attached, a successful processIssueEvent appends
\* one ISSUE_CREATED or ISSUE_UPDATED event, a successful analyzeIssue one
\* ISSUE_ANALYZED then one COMMENT_ADDED, a successful planIssue one
\* ISSUE_PLANNED then one COMMENT_ADDED, a successful addComment one
\* COMMENT_ADDED; and every step that changes an issue or its comments in
\* the repository appends an event for that issue.
EveryChangeLogged ==
    [][/\ CommandsAreLogged
       /\ \A id \in DOMAIN issues' :
             IssueChanged(id) =>
                \E i \in 1..Len(Appended) : Appended[i].issueId = id]_vars

\* the first half of C26 alone: what the four commands append
CommandsLogged == [][CommandsAreLogged]_vars

CommandsLoggedWitness ==
    /\ ret.op = "planIssue"
    /\ ret.kind = "value"
    /\ Len(events) = 5
    /\ events[4].type = "ISSUE_PLANNED"
    /\ events[5].type = "COMMENT_ADDED"

\* C27: the ISSUE_ANALYZED event a command appends carries the labels,
\* assignedTo, confidence and priority that the command wrote to the issue,
\* the ISSUE_PLANNED event carries the plan it wrote, and the issue was
\* written no later than the event was recorded.
AnalysisFields == {"labels", "assignedTo", "confidence", "priority"}

CommandOn(a) ==
    \/ \E event \in LiveIssueEvents :
          event.id = a /\ ProcessIssueEventCmd(event)
    \/ \E r \in Analyses : AnalyzeIssueCmd(a, r)
    \/ \E p \in Plans : PlanIssueCmd(a, p)
    \/ \E c \in Contents, au \in Authors : AddCommentCmd(a, c, au)

\* what a replay step leaves of the issues other than a
OthersKept(a, step) ==
    /\ DOMAIN step.after.issues \ {a} = DOMAIN step.before.issues \ {a}
    /\ \A b \in DOMAIN step.before.issues \ {a} :
          /\ step.after.issues[b] = step.before.issues[b]
          /\ FilterComments(step.after.comments, b)
                = FilterComments(step.before.comments, b)
          /\ \A i \in 1..Len(step.appended) : step.appended[i].issueId # b

\* C28: a command on issue A, and a replayed event of issue A, leave every
\* field and comment of every other issue B as it was and append no event
\* whose issueId is B.
IssuesKeepSeparateState ==
    /\ [][\A a \in IssueIds :
            CommandOn(a) =>
               OthersKept(a, [before |-> Repo(World),
                              after |-> [issues |-> issues',
                                         comments |-> comments'],
                              appended |-> Appended])]_vars
    /\ [](recovered.done =>
            \A k \in 1..Len(recovered.world.trace) :
               LET step == recovered.world.trace[k]
               IN  OthersKept(recovered.copied[step.idx].issueId, step))

\* a replay that applies an event of issue i2 while issue i1 and a comment on
\* it are in the repository
IssuesKeepSeparateStateWitness ==
    /\ recovered.done
    /\ \E k \in 1..Len(recovered.world.trace) :
          LET step == recovered.world.trace[k]
          IN  /\ recovered.copied[step.idx].issueId = "i2"
              /\ "i1" \in DOMAIN step.before.issues
              /\ FilterComments(step.before.comments, "i1") # << >>
              /\ step.after # step.before

\* ------------------------------------------------------------------------
\* Properties of commands in flight (checked under SpecAsync)
\* ------------------------------------------------------------------------

\* C29: commands on the same issue id are serialized: no two commands on one
\* id are in flight together, and between a command's read of the issue and
\* its last write no other command writes that issue.
CommandsSerialized ==
    /\ \A j, k \in 1..Len(pending) :
          j # k => pending[j].id # pending[k].id
    /\ \A k \in 1..Len(pending) :
          findById(World, pending[k].id) = pending[k].issue

\* the second of two analyses started on the same issue has overwritten the
\* labels written by the first
LostAnalysis ==
    /\ ret.op = "analyzeIssue"
    /\ pending = << >>
    /\ Len(events) = 5
    /\ events[2].type = "ISSUE_ANALYZED"
    /\ events[4].type = "ISSUE_ANALYZED"
    /\ events[2].issueId = events[4].issueId
    /\ events[2].data.labels # events[4].data.labels
    /\ issues[events[2].issueId].labels = events[4].data.labels

\* ------------------------------------------------------------------------
\* Properties of the retry wrapper's log (checked under SpecRetry)
\* ------------------------------------------------------------------------

\* C30: every failed attempt of a retry call, the last one included, leaves
\* one log entry that carries the operation name, the issue id, the number of
\* the attempt, the ceiling maxRetries + 1 and the error; there are as many
\* entries as failed attempts.  The entry of the last attempt states the
\* attempt's number as the count of attempts made, which is the ceiling.
FailedAttemptsLogged ==
    /\ Len(rlog) = Cardinality({ k \in 1..Len(opCalls) : Failed(k) })
    /\ \A k \in 1..Len(rlog) :
          /\ Failed(k)
          /\ rlog[k].op = opName
          /\ rlog[k].issueId = opIssueId
          /\ rlog[k].error = opCalls[k].error
          /\ rlog[k].ceiling = config.maxRetries + 1
          /\ rlog[k].level = "warn" => rlog[k].attempt = k
          /\ rlog[k].level = "error" => rlog[k].ceiling = k

FailedAttemptsLoggedWitness ==
    /\ RetryDone
    /\ AllFailed
    /\ Len(rlog) = 3
    /\ rlog[1].level = "warn"
    /\ rlog[3].level = "error"
    /\ rlog[1].error # rlog[3].error
    /\ rlog[3].issueId = "i2"
    /\ rlog[3].op = "LLM Planning"

\* ------------------------------------------------------------------------
\* Further properties of replay
\* ------------------------------------------------------------------------

\* C31: replay applies the events in the order in which they were appended,
\* also when their timestamps were supplied by the callers of saveEvent.
ReplayFollowsAppendOrder ==
    Replayed =>
        AppliedOrder(recovered.first)
          = [k \in 1..Len(recovered.copied) |-> k]

\* the fields of an issue that replay is to reconstruct
RebuiltFields ==
    {"title", "description", "status", "labels", "assignedTo", "confidence",
     "priority", "plan"}

\* C35: a replay that directly follows a replay on the same store and
\* repository leaves the title, description, status, labels, assignedTo,
\* confidence, priority, plan and comments of every issue as the first
\* replay left them.
ReplayTwiceSame ==
    [][(ret.op = "replayEvents" /\ ReplayEventsCmd) =>
          /\ DOMAIN issues' = DOMAIN issues
          /\ \A id \in DOMAIN issues :
                /\ \A f \in RebuiltFields :
                      Field(issues'[id], f) = Field(issues[id], f)
                /\ FilterComments(comments', id)
                      = FilterComments(comments, id)]_vars

NeedsIssue ==
    {"ISSUE_UPDATED", "ISSUE_ANALYZED", "ISSUE_PLANNED", "COMMENT_ADDED"}

\* C32: replay of an ISSUE_UPDATED, ISSUE_ANALYZED, ISSUE_PLANNED or
\* COMMENT_ADDED event whose issue is not in the repository creates no issue,
\* stores no comment, changes no issue, and the replay goes on with the
\* events that follow.
InapplicableSkipped ==
    Replayed =>
        /\ Len(recovered.first.trace) = Len(recovered.copied)
        /\ \A k \in 1..Len(recovered.first.trace) :
              LET step == recovered.first.trace[k]
              IN  (/\ EventAt(k).type \in NeedsIssue
                   /\ EventAt(k).issueId \notin DOMAIN step.before.issues)
                  => /\ step.after = step.before
                     /\ step.appended = << >>

\* an analysis of an issue that is not there yet, then its creation, then a
\* comment on it
InapplicableSkippedWitness ==
    /\ Replayed
    /\ Len(recovered.copied) = MaxLog
    /\ AppliedOrder(recovered.first) = <<1, 2, 3>>
    /\ recovered.copied[1].type = "ISSUE_ANALYZED"
    /\ recovered.copied[2].type = "ISSUE_CREATED"
    /\ recovered.copied[3].type = "COMMENT_ADDED"
    /\ \A i \in 1..3 : recovered.copied[i].issueId = "i1"
    /\ DOMAIN recovered.first.issues = {"i1"}
    /\ "labels" \notin DOMAIN recovered.first.issues["i1"]
    /\ Len(recovered.first.comments) = 1

\* ------------------------------------------------------------------------
\* Properties of the fields an event writes
\* ------------------------------------------------------------------------

\* the record after differs from the record before in the fields of `own`
\* at most, and holds there what `payload` holds
WritesOnly(before, after, own, payload) ==
    /\ \A f \in (DOMAIN before \cup DOMAIN after) \ (own \cup {"updatedAt"}) :
          Field(after, f) = Field(before, f)
    /\ \A f \in own : after[f] = payload[f]

\* C33: applying an analysis, by the command or by replay, sets labels,
\* assignedTo, confidence and priority from the payload and updatedAt and
\* leaves every other field of the issue and its comments as they were;
\* applying a plan sets plan and updatedAt and leaves every other field.
OwnFieldsOnly ==
    /\ [][\A id \in DOMAIN issues :
            /\ \A r \in Analyses :
                  AnalyzeIssueCmd(id, r) =>
                     WritesOnly(issues[id], issues'[id], AnalysisFields, r)
            /\ \A p \in Plans :
                  PlanIssueCmd(id, p) =>
                     WritesOnly(issues[id], issues'[id], {"plan"},
                                [plan |-> p])]_vars
    /\ [](recovered.done =>
            \A k \in 1..Len(recovered.world.trace) :
               LET step == recovered.world.trace[k]
                   e == recovered.copied[step.idx]
                   own == IF e.type = "ISSUE_ANALYZED" THEN AnalysisFields
                          ELSE {"plan"}
               IN  (/\ e.type \in {"ISSUE_ANALYZED", "ISSUE_PLANNED"}
                    /\ e.issueId \in DOMAIN step.before.issues)
                   => /\ WritesOnly(step.before.issues[e.issueId],
                                    step.after.issues[e.issueId], own, e.data)
                      /\ step.after.comments = step.before.comments)

\* an issue whose title was changed, then analysed, and the log replayed
OwnFieldsOnlyWitness ==
    /\ recovered.done
    /\ Len(recovered.copied) = 4
    /\ recovered.copied[2].type = "ISSUE_UPDATED"
    /\ recovered.copied[3].type = "ISSUE_ANALYZED"
    /\ \A i \in 1..4 : recovered.copied[i].issueId = "i1"
    /\ recovered.world.issues["i1"].title = "t2"
    /\ recovered.world.issues["i1"].labels = issues["i1"].labels

\* ------------------------------------------------------------------------
\* Properties of query results
\* ------------------------------------------------------------------------

\* the events of the first n of the log that a query for `issueId` selects
LogBefore(n, issueId) ==
    LET first == SubSeq(events, 1, n)
    IN  IF issueId = "all" THEN first ELSE FilterEvents(first, issueId)

\* C34: the array a query returned holds the events that were in the log
\* when the query ran, whatever is appended afterwards, and a caller that
\* iterates it while events are appended visits exactly those events.
QuerySnapshot ==
    held.array # "none" =>
        /\ Elements(held, World) = LogBefore(held.at, held.issueId)
        /\ Len(held.seen) <= Len(Elements(held, World))
        /\ held.seen = SubSeq(LogBefore(held.at, held.issueId), 1,
                              Len(held.seen))
        /\ held.done => held.seen = LogBefore(held.at, held.issueId)

\* a caller finished iterating a non-empty result of getEvents after two
\* more events had been appended, the first of them before it was done
QuerySnapshotWitness ==
    /\ held.array = "new"
    /\ held.issueId = "all"
    /\ held.done
    /\ held.at = 1
    /\ Len(held.seen) = 1
    /\ Len(events) = 3

\* the same for getEventsByIssueId
QuerySnapshotByIssueWitness ==
    /\ held.array = "new"
    /\ held.issueId = "i1"
    /\ held.done
    /\ Len(held.seen) = 1
    /\ Len(FilterEvents(events, "i1")) = 3

\* ------------------------------------------------------------------------
\* Properties of failing commands
\* ------------------------------------------------------------------------

\* C36: when the LLM call of analyzeIssue or planIssue fails, the command
\* throws that same error, and the issues, the comments and the event log
\* are as they were before the command.
FailedCallLeavesNoTrace ==
    [][\A id \in IssueIds, error \in Errors :
          (AnalyzeIssueFails(id, error) \/ PlanIssueFails(id, error)) =>
              /\ ret'.kind = "throw"
              /\ ret'.error = error
              /\ issues' = issues
              /\ comments' = comments
              /\ events' = events]_vars

\* planIssue failed with E2 on an issue that had been analysed before
FailedCallLeavesNoTraceWitness ==
    /\ ret.op = "planIssue"
    /\ ret.kind = "throw"
    /\ ret.error = "E2"
    /\ Len(events) = 3
    /\ "i1" \in DOMAIN issues
    /\ "labels" \in DOMAIN issues["i1"]
    /\ "plan" \notin DOMAIN issues["i1"]

\* ------------------------------------------------------------------------
\* Properties of calls that overlap on the event loop
\* ------------------------------------------------------------------------

\* the events of evs, taken in the order `order` of their positions, are
\* each preceded by the creation of their issue
CreatedFirst(evs, order) ==
    \A k \in 1..Len(order) :
        evs[order[k]].type \in NeedsIssue =>
            \E j \in 1..(k - 1) :
                /\ evs[order[j]].type = "ISSUE_CREATED"
                /\ evs[order[j]].issueId = evs[order[k]].issueId

\* C37: however the calls interleave, every ISSUE_UPDATED, ISSUE_ANALYZED,
\* ISSUE_PLANNED and COMMENT_ADDED event of the log comes after an
\* ISSUE_CREATED event of the same issue, in the order of the log and in the
\* order in which replayEvents would apply the log.
CausalOrder ==
    /\ CreatedFirst(events, [k \in 1..Len(events) |-> k])
    /\ CreatedFirst(events, SortedEvents(events))

\* a comment was logged for i1 while a replay that began when the log held
\* only the creation of i1 was still running, the clock having moved
CausalOrderWitness ==
    /\ Len(events) >= 2
    /\ events[1].type = "ISSUE_CREATED"
    /\ events[2].type = "COMMENT_ADDED"
    /\ events[2].timestamp # events[1].timestamp
    /\ \E i \in 1..Len(tasks) :
          /\ tasks[i].cmd = "replayEvents"
          /\ tasks[i].loop.started = 1

\* C38: the log holds at most one ISSUE_CREATED event for an issue id.
OneCreationPerIssue ==
    \A id \in IssueIds :
        Cardinality({ k \in 1..Len(events) :
                        /\ events[k].type = "ISSUE_CREATED"
                        /\ events[k].issueId = id }) <= 1

\* the last event of type `type` for issue id in the log, 0 if there is none
LastOf(type, id) ==
    LET at == { k \in 1..Len(events) :
                  events[k].type = type /\ events[k].issueId = id }
    IN  IF at = {} THEN 0 ELSE CHOOSE k \in at : \A j \in at : j <= k

\* C39: when every analyzeIssue and planIssue call has returned, the
\* analysis fields of each issue are those of the last ISSUE_ANALYZED event
\* of the issue and its plan is that of the last ISSUE_PLANNED event.
LogAndStoreAgree ==
    (tasks = << >> /\ pending = << >>) =>
        \A id \in DOMAIN issues :
            /\ \A f \in AnalysisFields :
                  Field(issues[id], f) =
                     IF LastOf("ISSUE_ANALYZED", id) = 0 THEN Field(NoArg, f)
                     ELSE Field(events[LastOf("ISSUE_ANALYZED", id)].data, f)
            /\ Field(issues[id], "plan") =
                     IF LastOf("ISSUE_PLANNED", id) = 0 THEN Field(NoArg, "plan")
                     ELSE Field(events[LastOf("ISSUE_PLANNED", id)].data, "plan")

\* two analyses of i1 with different answers wrote and logged in turns
LogAndStoreAgreeWitness ==
    /\ tasks = << >>
    /\ pending = << >>
    /\ Len(events) = 5
    /\ events[2].type = "ISSUE_ANALYZED"
    /\ events[3].type = "ISSUE_ANALYZED"
    /\ events[2].issueId = "i1"
    /\ events[3].issueId = "i1"
    /\ events[2].data.labels # events[3].data.labels

\* what a replay in flight has applied so far
ReplayOnSnapshot(loop) ==
    /\ Len(loop.sorted) = loop.started
    /\ loop.pos <= loop.started
    /\ loop.applied = SubSeq(loop.sorted, 1, loop.pos)
    /\ \A k \in 1..Len(loop.applied) : loop.applied[k] <= loop.started

ReplayRunning == \E i \in 1..Len(tasks) : tasks[i].cmd = "replayEvents"

\* C40: a replay applies the events that were in the log when it started,
\* each once, and no event appended while it runs, by itself or by another
\* call; and every replay that has started returns.
ReplayOnSnapshotEnds ==
    /\ [](/\ \A i \in 1..Len(tasks) :
               tasks[i].cmd = "replayEvents" => ReplayOnSnapshot(tasks[i].loop)
          /\ ret.op = "replayEvents" =>
               /\ Len(ret.applied) = ret.started
               /\ { ret.applied[k] : k \in 1..Len(ret.applied) }
                     = 1..ret.started)
    /\ (ReplayRunning ~> ~ReplayRunning)

\* a replay of a log of one event returned after two events had been
\* appended while it ran, one by itself and one by an addComment call
ReplayOnSnapshotEndsWitness ==
    /\ ret.op = "replayEvents"
    /\ ret.started = 1
    /\ ret.applied = <<1>>
    /\ Len(events) = 3
    /\ {events[2].type, events[3].type} = {"COMMENT_ADDED", "ISSUE_UPDATED"}

====
